---- MODULE Spec2Model ----
(***************************************************************************)
(* ddmerge: two-tree directory comparison and hunk-wise reconciliation of  *)
(* two texts.  Texts are sequences of characters; line indices are 0-based *)
(* as in the source, and converted (+1) where a TLA+ sequence is indexed.  *)
(***************************************************************************)
EXTENDS Integers, Sequences, FiniteSets, TLC

VARIABLES
    left_content,        \* text read from the left file
    right_content,       \* text read from the right file
    ops,                 \* edit-operation sequence of the alignment engine
    choices,             \* choices handed to apply_hunk_choices
    op_pos,              \* number of operations already walked
    hunk_idx,            \* hunk_idx of apply_hunk_choices
    merged_left_lines,   \* line buffer of the left output
    merged_right_lines,  \* line buffer of the right output
    merged_left,         \* left output text
    merged_right,        \* right output text
    left_lines_vec,      \* extract_hunks: lines of the left text
    right_lines_vec,     \* extract_hunks: lines of the right text
    hunks,               \* extract_hunks: hunks pushed so far
    disk_left,           \* content of the left file on disk
    disk_right,          \* content of the right file on disk
    hunk_choices,        \* main: decisions taken for the current file pair
    dry_run,             \* main: args.dry_run
    skip_binary,         \* main: args.skip_binary
    quit,                \* main: quit flag
    left_tree,           \* directory tree under the left root
    right_tree,          \* directory tree under the right root
    diffs,               \* result of compare_directories
    applied,             \* the entry and the action handed to apply_file_action
    entry_pos,           \* main: number of entries of diffs already handled
    input,               \* main: the last answer read at an entry prompt
    walk_stack,          \* collect_paths: the directories the walk is in, innermost first
    scan_left_paths,     \* compare_directories: left_paths, collected under the left root
    scan_right_paths,    \* compare_directories: right_paths, collected under the right root
    scan_paths,          \* compare_directories: all_paths, the union of the walks
    scan_pos,            \* compare_directories: number of paths the loop has done
    scan_local,          \* compare_directories: the locals of the body of the loop
    vanished,            \* the side and the path another process removed, if any
    unreadable,          \* the sides and paths of the files that cannot be read
    eof,                 \* main: the last read_line returned Ok(0)
    engine_ops,          \* the operations TextDiff::from_lines gives for the two texts
    first_hunks,         \* the hunks an earlier call of extract_hunks returned
    pc                   \* position of the running operation

textVars == <<left_content, right_content, ops>>

replayVars == <<choices, hunk_idx, merged_left_lines, merged_right_lines,
                merged_left, merged_right>>

extractVars == <<left_lines_vec, right_lines_vec, hunks>>

sessionVars == <<disk_left, disk_right, hunk_choices, dry_run, skip_binary, quit>>

treeVars == <<left_tree, right_tree, diffs, applied, entry_pos, input>>

scanVars == <<walk_stack, scan_left_paths, scan_right_paths, scan_paths, scan_pos,
              scan_local, vanished, unreadable>>

invokeVars == <<engine_ops, first_hunks>>

vars == <<textVars, replayVars, extractVars, sessionVars, treeVars, scanVars,
          invokeVars, eof, op_pos, pc>>

----------------------------------------------------------------------------
(* Bounds *)

MaxTotalLen == 6

MaxNodes == 3

\* nodes of both trees together, where an operation changes the trees
MaxPairNodes == 4

----------------------------------------------------------------------------
(* Characters and texts *)

LF == "\n"

CR == "\r"

Chars == {"a", LF, CR}

TextsOfLen(n) == [1..n -> Chars]

\* the pairs of texts that hold at most MaxTotalLen characters together
TextPairs ==
    UNION {TextsOfLen(i) \X TextsOfLen(j) :
              <<i, j>> \in {x \in (0..MaxTotalLen) \X (0..MaxTotalLen) :
                               x[1] + x[2] <= MaxTotalLen}}

HunkChoice == {"Left", "Right", "Skip"}

\* the choice lists for n hunks: none missing up to all, and one too many
ChoiceLists(n) == UNION {[1..k -> HunkChoice] : k \in 0..(n + 1)}

Min(a, b) == IF a < b THEN a ELSE b

Max(a, b) == IF a > b THEN a ELSE b

Drop(s, k) == SubSeq(s, k + 1, Len(s))

RECURSIVE Concat(_)
Concat(ss) == IF ss = <<>> THEN <<>> ELSE Head(ss) \o Concat(Tail(ss))

\* str::ends_with('\n')
EndsWithNewline(s) == Len(s) > 0 /\ s[Len(s)] = LF

\* position of the first LF of s, 0 if there is none
FirstLF(s) ==
    IF \E k \in 1..Len(s) : s[k] = LF
    THEN CHOOSE k \in 1..Len(s) : s[k] = LF /\ \A j \in 1..(k - 1) : s[j] # LF
    ELSE 0

\* str::split_inclusive('\n'): pieces that keep their LF
RECURSIVE SplitInclusive(_)
SplitInclusive(s) ==
    IF s = <<>> THEN <<>>
    ELSE LET k == FirstLF(s)
         IN  IF k = 0 THEN <<s>>
             ELSE <<SubSeq(s, 1, k)>> \o SplitInclusive(Drop(s, k))

\* the map of str::lines: strip one LF, and then one CR before it
StripLineEnding(p) ==
    IF EndsWithNewline(p)
    THEN LET q == SubSeq(p, 1, Len(p) - 1)
         IN  IF Len(q) > 0 /\ q[Len(q)] = CR THEN SubSeq(q, 1, Len(q) - 1) ELSE q
    ELSE p

\* str::lines().collect()
Lines(s) ==
    LET ps == SplitInclusive(s)
    IN  [i \in 1..Len(ps) |-> StripLineEnding(ps[i])]

\* length of the first token of the alignment engine: a line with its
\* terminator, where LF, CR LF and a bare CR all terminate a line
FirstTokenLen(s) ==
    IF \E k \in 1..Len(s) : s[k] \in {LF, CR}
    THEN LET k == CHOOSE k \in 1..Len(s) :
                      s[k] \in {LF, CR} /\ \A j \in 1..(k - 1) : s[j] \notin {LF, CR}
         IN  IF s[k] = CR /\ k < Len(s) /\ s[k + 1] = LF THEN k + 1 ELSE k
    ELSE Len(s)

\* TextDiff::from_lines tokenization of one text
RECURSIVE TokenizeLines(_)
TokenizeLines(s) ==
    IF s = <<>> THEN <<>>
    ELSE LET k == FirstTokenLen(s)
         IN  <<SubSeq(s, 1, k)>> \o TokenizeLines(Drop(s, k))

----------------------------------------------------------------------------
(* The alignment engine (TextDiff::from_lines(..).ops()): an ordered,      *)
(* contiguous edit-operation sequence over the engine's tokens that covers *)
(* both token ranges.  A Delete next to an Insert is reported as one       *)
(* Replace, adjacent Equal runs as one Equal, and the sequence changes as  *)
(* few lines as possible; which of several such sequences the engine       *)
(* returns is left open.                                                   *)

DiffOp(tag, old_index, old_len, new_index, new_len) ==
    [tag |-> tag, old_index |-> old_index, old_len |-> old_len,
     new_index |-> new_index, new_len |-> new_len]

ChangeOp(i, dl, j, il) ==
    DiffOp(IF il = 0 THEN "Delete" ELSE IF dl = 0 THEN "Insert" ELSE "Replace",
           i, dl, j, il)

RECURSIVE EditScripts(_, _, _, _, _)
EditScripts(a, b, i, j, prev) ==
    IF i = Len(a) /\ j = Len(b) THEN {<<>>}
    ELSE
        (IF prev = "Equal" THEN {}
         ELSE UNION {
                {<<DiffOp("Equal", i, k, j, k)>> \o r :
                    r \in EditScripts(a, b, i + k, j + k, "Equal")} :
                k \in {k \in 1..Min(Len(a) - i, Len(b) - j) :
                          \A d \in 1..k : a[i + d] = b[j + d]}})
        \cup
        (IF prev = "Change" THEN {}
         ELSE UNION {
                {<<ChangeOp(i, x[1], j, x[2])>> \o r :
                    r \in EditScripts(a, b, i + x[1], j + x[2], "Change")} :
                x \in ((0..(Len(a) - i)) \X (0..(Len(b) - j))) \ {<<0, 0>>}})

RECURSIVE ChangedLines(_)
ChangedLines(script) ==
    IF script = <<>> THEN 0
    ELSE (IF Head(script).tag = "Equal" THEN 0
          ELSE Head(script).old_len + Head(script).new_len)
         + ChangedLines(Tail(script))

DiffOps(left, right) ==
    LET all == EditScripts(TokenizeLines(left), TokenizeLines(right), 0, 0, "None")
    IN  {s \in all : \A t \in all : ChangedLines(s) <= ChangedLines(t)}

NumHunks(script) == Cardinality({k \in 1..Len(script) : script[k].tag # "Equal"})

----------------------------------------------------------------------------
(* apply_hunk_choices *)

\* a range with an index out of range pushing no line at all
PushRangeAllOrNothing(lines, start, len) ==
    IF start + len <= Len(lines) THEN SubSeq(lines, start + 1, start + len) ELSE <<>>

\* for i in start..(start + len) { if i < lines.len() { push(lines[i]) } }
RECURSIVE PushRange(_, _, _)
PushRange(lines, start, len) ==
    IF len = 0 THEN <<>>
    ELSE (IF start < Len(lines) THEN <<lines[start + 1]>> ELSE <<>>)
         \o PushRange(lines, start + 1, len - 1)

Buffers(l, r) == [left |-> l, right |-> r]

\* a missing choice taken as Left
ChoiceAtDefaultLeft(cs, idx) == IF idx < Len(cs) THEN cs[idx + 1] ELSE "Left"

\* choices.get(hunk_idx).copied().unwrap_or(HunkChoice::Skip)
ChoiceAt(cs, idx) == IF idx < Len(cs) THEN cs[idx + 1] ELSE "Skip"

EqualArm(op, ll, rl, buf) ==
    LET span == PushRange(ll, op.old_index, op.old_len)
    IN  Buffers(buf.left \o span, buf.right \o span)

\* Delete with Skip dropping the lines from both buffers
DeleteArmSkipDrops(op, choice, ll, rl, buf) ==
    LET span == PushRange(ll, op.old_index, op.old_len)
    IN  CASE choice = "Left"  -> Buffers(buf.left \o span, buf.right \o span)
          [] choice = "Skip"  -> buf
          [] choice = "Right" -> buf

DeleteArm(op, choice, ll, rl, buf) ==
    LET span == PushRange(ll, op.old_index, op.old_len)
    IN  CASE choice = "Left"  -> Buffers(buf.left \o span, buf.right \o span)
          [] choice = "Skip"  -> Buffers(buf.left \o span, buf.right)
          [] choice = "Right" -> buf

\* Insert with Left leaving the lines in the right buffer
InsertArmLeftKeepsRight(op, choice, ll, rl, buf) ==
    LET span == PushRange(rl, op.new_index, op.new_len)
    IN  CASE choice = "Right" -> Buffers(buf.left \o span, buf.right \o span)
          [] choice = "Skip"  -> Buffers(buf.left, buf.right \o span)
          [] choice = "Left"  -> Buffers(buf.left, buf.right \o span)

InsertArm(op, choice, ll, rl, buf) ==
    LET span == PushRange(rl, op.new_index, op.new_len)
    IN  CASE choice = "Right" -> Buffers(buf.left \o span, buf.right \o span)
          [] choice = "Skip"  -> Buffers(buf.left, buf.right \o span)
          [] choice = "Left"  -> buf

ReplaceArm(op, choice, ll, rl, buf) ==
    LET lspan == PushRange(ll, op.old_index, op.old_len)
        rspan == PushRange(rl, op.new_index, op.new_len)
    IN  CASE choice = "Left"  -> Buffers(buf.left \o lspan, buf.right \o lspan)
          [] choice = "Skip"  -> Buffers(buf.left \o lspan, buf.right \o rspan)
          [] choice = "Right" -> Buffers(buf.left \o rspan, buf.right \o rspan)

\* one iteration of `for op in diff.ops()`
ReplayOp(op, choice, ll, rl, buf) ==
    CASE op.tag = "Equal"   -> EqualArm(op, ll, rl, buf)
      [] op.tag = "Delete"  -> DeleteArm(op, choice, ll, rl, buf)
      [] op.tag = "Insert"  -> InsertArm(op, choice, ll, rl, buf)
      [] op.tag = "Replace" -> ReplaceArm(op, choice, ll, rl, buf)

\* choices.iter().rev().find(|c| **c != HunkChoice::Skip)
LastNonSkip(cs) ==
    IF \E k \in 1..Len(cs) : cs[k] # "Skip"
    THEN cs[CHOOSE k \in 1..Len(cs) :
                cs[k] # "Skip" /\ \A j \in (k + 1)..Len(cs) : cs[j] = "Skip"]
    ELSE "None"

\* (left_trailing, right_trailing)
ResolveTrailing(cs, left_has_newline, right_has_newline) ==
    CASE LastNonSkip(cs) = "Left"  -> <<left_has_newline, left_has_newline>>
      [] LastNonSkip(cs) = "Right" -> <<right_has_newline, right_has_newline>>
      [] OTHER                     -> <<left_has_newline, right_has_newline>>

\* Vec<String>::join("\n")
RECURSIVE Join(_)
Join(lines) ==
    IF lines = <<>> THEN <<>>
    ELSE IF Len(lines) = 1 THEN lines[1]
    ELSE lines[1] \o <<LF>> \o Join(Tail(lines))

\* join, then push('\n') if trailing && !merged.is_empty()
JoinWithTrailing(lines, trailing) ==
    LET merged == Join(lines)
    IN  IF trailing /\ merged # <<>> THEN merged \o <<LF>> ELSE merged

RECURSIVE ReplayAll(_, _, _, _, _, _)
ReplayAll(script, cs, idx, ll, rl, buf) ==
    IF script = <<>> THEN buf
    ELSE LET op == Head(script)
         IN  ReplayAll(Tail(script), cs,
                       IF op.tag = "Equal" THEN idx ELSE idx + 1,
                       ll, rl,
                       ReplayOp(op, ChoiceAt(cs, idx), ll, rl, buf))

\* apply_hunk_choices(left, right, _, choices) over the engine's script
ApplyHunkChoices(left, right, script, cs) ==
    LET buf == ReplayAll(script, cs, 0, Lines(left), Lines(right),
                         Buffers(<<>>, <<>>))
        tr  == ResolveTrailing(cs, EndsWithNewline(left), EndsWithNewline(right))
    IN  <<JoinWithTrailing(buf.left, tr[1]), JoinWithTrailing(buf.right, tr[2])>>

----------------------------------------------------------------------------
(* extract_hunks *)

\* context radius main passes to extract_hunks
ContextLines == 3

format_line_with_newline(line, index, total_lines, content_ends_with_newline) ==
    LET is_last_line == (index = total_lines - 1)
    IN  IF is_last_line /\ ~content_ends_with_newline
        THEN line
        ELSE line \o <<LF>>

\* the lines with index in [from, to) that exist, each formatted
RECURSIVE FormatRange(_, _, _, _)
FormatRange(lines, from, to, ends) ==
    IF from >= to THEN <<>>
    ELSE (IF from < Len(lines)
          THEN <<format_line_with_newline(lines[from + 1], from, Len(lines), ends)>>
          ELSE <<>>)
         \o FormatRange(lines, from + 1, to, ends)

\* the context before a change reaching back to the start of the text
ContextBeforeFromStart(ll, old_index, ctx, lends) ==
    FormatRange(ll, 0, old_index, lends)

\* (old_index.saturating_sub(context_lines)..old_index)
ContextBefore(ll, old_index, ctx, lends) ==
    FormatRange(ll, Max(old_index - ctx, 0), old_index, lends)

\* (start..(start + context_lines).min(left_lines_vec.len()))
ContextAfter(ll, start, ctx, lends) ==
    FormatRange(ll, start, Min(start + ctx, Len(ll)), lends)

Hunk(ls, lc, rs, rc, llines, rlines, before, after) ==
    [left_start |-> ls, left_count |-> lc, right_start |-> rs, right_count |-> rc,
     left_lines |-> llines, right_lines |-> rlines,
     context_before |-> before, context_after |-> after]

DeleteHunk(op, ll, rl, lends, rends, ctx) ==
    Hunk(op.old_index, op.old_len, op.new_index, 0,
         FormatRange(ll, op.old_index, op.old_index + op.old_len, lends),
         <<>>,
         ContextBefore(ll, op.old_index, ctx, lends),
         ContextAfter(ll, op.old_index + op.old_len, ctx, lends))

InsertHunk(op, ll, rl, lends, rends, ctx) ==
    Hunk(op.old_index, 0, op.new_index, op.new_len,
         <<>>,
         FormatRange(rl, op.new_index, op.new_index + op.new_len, rends),
         ContextBefore(ll, op.old_index, ctx, lends),
         ContextAfter(ll, op.old_index, ctx, lends))

ReplaceHunk(op, ll, rl, lends, rends, ctx) ==
    Hunk(op.old_index, op.old_len, op.new_index, op.new_len,
         FormatRange(ll, op.old_index, op.old_index + op.old_len, lends),
         FormatRange(rl, op.new_index, op.new_index + op.new_len, rends),
         ContextBefore(ll, op.old_index, ctx, lends),
         ContextAfter(ll, op.old_index + op.old_len, ctx, lends))

\* a hunk pushed for an Equal operation as well
HunksOfOpWithEqual(op, ll, rl, lends, rends, ctx) ==
    CASE op.tag = "Equal"   -> <<ReplaceHunk(op, ll, rl, lends, rends, ctx)>>
      [] op.tag = "Delete"  -> <<DeleteHunk(op, ll, rl, lends, rends, ctx)>>
      [] op.tag = "Insert"  -> <<InsertHunk(op, ll, rl, lends, rends, ctx)>>
      [] op.tag = "Replace" -> <<ReplaceHunk(op, ll, rl, lends, rends, ctx)>>

\* one iteration of `for op in diff.ops()`: the hunks pushed for op
HunksOfOp(op, ll, rl, lends, rends, ctx) ==
    CASE op.tag = "Equal"   -> <<>>
      [] op.tag = "Delete"  -> <<DeleteHunk(op, ll, rl, lends, rends, ctx)>>
      [] op.tag = "Insert"  -> <<InsertHunk(op, ll, rl, lends, rends, ctx)>>
      [] op.tag = "Replace" -> <<ReplaceHunk(op, ll, rl, lends, rends, ctx)>>

RECURSIVE ExtractAll(_, _, _, _, _, _)
ExtractAll(script, ll, rl, lends, rends, ctx) ==
    IF script = <<>> THEN <<>>
    ELSE HunksOfOp(Head(script), ll, rl, lends, rends, ctx)
         \o ExtractAll(Tail(script), ll, rl, lends, rends, ctx)

\* extract_hunks(left, right, context_lines) over the engine's script
ExtractHunks(left, right, script, ctx) ==
    ExtractAll(script, Lines(left), Lines(right),
               EndsWithNewline(left), EndsWithNewline(right), ctx)

----------------------------------------------------------------------------
(* Directory trees.  A tree maps every relative path under a root to its   *)
(* node: a directory or a file with its bytes.  A relative path is the     *)
(* sequence of its components.                                             *)

Names == {"a", "a.b"}

\* the bytes of a component name
NameBytes(n) == CASE n = "a" -> <<97>> [] n = "a.b" -> <<97, 46, 98>>

\* the bytes a file can hold at the start: two texts that differ in two places
FileContents == {<<LF, "a", LF>>, <<"a", LF, LF>>}

DirNode == [is_dir |-> TRUE, content |-> <<>>]

FileNode(c) == [is_dir |-> FALSE, content |-> c]

Nodes == {DirNode} \cup {FileNode(c) : c \in FileContents}

EmptyTree == <<>>

Parent(p) == SubSeq(p, 1, Len(p) - 1)

\* the paths that can be created in tree t: a new name in the root or in a
\* directory of t
FreePaths(t) ==
    {Append(d, n) : d \in {<<>>} \cup {q \in DOMAIN t : t[q].is_dir}, n \in Names}
        \ DOMAIN t

AddNode(t, p, node) == [q \in DOMAIN t \cup {p} |-> IF q = p THEN node ELSE t[q]]

RECURSIVE TreesUpTo(_)
TreesUpTo(n) ==
    IF n = 0 THEN {EmptyTree}
    ELSE LET smaller == TreesUpTo(n - 1)
         IN  smaller \cup
             {AddNode(t, p, node) : <<t, p>> \in
                  UNION {{<<t, p>> : p \in FreePaths(t)} : t \in smaller},
              node \in Nodes}

Trees == TreesUpTo(MaxNodes)

\* Path::exists and Path::is_dir of root.join(rel_path)
Exists(t, p) == p \in DOMAIN t

IsDir(t, p) == p \in DOMAIN t /\ t[p].is_dir

\* the entries of directory d (the root is the empty path)
Children(t, d) == {p \in DOMAIN t : Parent(p) = d}

\* the orders in which WalkDir can yield the paths below a directory: every
\* directory before its contents, the entries of one directory in any order
RECURSIVE WalkBelow(_, _), WalkEntries(_, _)
WalkBelow(t, d) == WalkEntries(t, Children(t, d))

WalkEntries(t, S) ==
    IF S = {} THEN {<<>>}
    ELSE UNION {{<<c>> \o w \o r : w \in WalkBelow(t, c),
                                   r \in WalkEntries(t, S \ {c})} : c \in S}

\* WalkDir::new(root).min_depth(1)
WalkDir(t) == WalkBelow(t, <<>>)

----------------------------------------------------------------------------
(* compare_directories *)

RECURSIVE SeqLess(_, _)
SeqLess(x, y) ==
    IF y = <<>> THEN FALSE
    ELSE IF x = <<>> THEN TRUE
    ELSE IF Head(x) # Head(y) THEN Head(x) < Head(y)
    ELSE SeqLess(Tail(x), Tail(y))

\* Ord of PathBuf: component by component, a component by its bytes
RECURSIVE PathLess(_, _)
PathLess(p, q) ==
    IF q = <<>> THEN FALSE
    ELSE IF p = <<>> THEN TRUE
    ELSE IF Head(p) # Head(q) THEN SeqLess(NameBytes(Head(p)), NameBytes(Head(q)))
    ELSE PathLess(Tail(p), Tail(q))

\* iteration order of a BTreeSet<PathBuf>
RECURSIVE SortedPaths(_)
SortedPaths(S) ==
    IF S = {} THEN <<>>
    ELSE LET m == CHOOSE p \in S : \A q \in S \ {p} : PathLess(p, q)
         IN  <<m>> \o SortedPaths(S \ {m})

\* BTreeSet::insert at the end of the set, whatever the order
BTreeInsertAtEnd(set, p) ==
    IF \E k \in 1..Len(set) : set[k] = p THEN set ELSE Append(set, p)

\* BTreeSet::insert: the set is held as the sequence of its iteration
BTreeInsert(set, p) ==
    IF \E k \in 1..Len(set) : set[k] = p THEN set
    ELSE LET n == Cardinality({k \in 1..Len(set) : PathLess(set[k], p)})
         IN  SubSeq(set, 1, n) \o <<p>> \o SubSeq(set, n + 1, Len(set))

RECURSIVE BTreeExtend(_, _)
BTreeExtend(set, ps) ==
    IF ps = <<>> THEN set
    ELSE BTreeExtend(BTreeInsert(set, Head(ps)), Tail(ps))

\* collect_paths: the paths the walk yields, inserted one by one
collect_paths(walk) == BTreeExtend(<<>>, walk)

\* Option<bool>
None == {}

Some(b) == {b}

\* Option::unwrap_or(false)
UnwrapOrFalse(o) == TRUE \in o

DiffEntry(path, diff_type, left_is_dir, right_is_dir) ==
    [path |-> path, diff_type |-> diff_type,
     left_is_dir |-> left_is_dir, right_is_dir |-> right_is_dir]

\* the entries of a list
EntrySet(ds) == {ds[k] : k \in 1..Len(ds)}

left_only(path, is_dir) == DiffEntry(path, "LeftOnly", Some(is_dir), None)

\* right_only recording the flag on the left side
right_only_left_flag(path, is_dir) == DiffEntry(path, "RightOnly", Some(is_dir), None)

right_only(path, is_dir) == DiffEntry(path, "RightOnly", None, Some(is_dir))

modified(path) == DiffEntry(path, "Modified", Some(FALSE), Some(FALSE))

\* a path of differing kinds reported as Modified
type_mismatch_as_modified(path, left_is_dir, right_is_dir) ==
    DiffEntry(path, "Modified", Some(left_is_dir), Some(right_is_dir))

type_mismatch(path, left_is_dir, right_is_dir) ==
    DiffEntry(path, "TypeMismatch", Some(left_is_dir), Some(right_is_dir))

\* path.ancestors().skip(1), up to the empty path
StrictAncestors(p) == {SubSeq(p, 1, k) : k \in 1..(Len(p) - 1)}

has_parent_diff(ds, path, diff_type) ==
    \E anc \in StrictAncestors(path) :
        \E k \in 1..Len(ds) : ds[k].path = anc /\ ds[k].diff_type = diff_type

\* Path::starts_with: dir is a component-wise prefix of p
StartsWith(p, dir) == Len(dir) <= Len(p) /\ SubSeq(p, 1, Len(dir)) = dir

\* the filter looking at the immediate parent only
filter_nested_diffs_parent_only(ds) ==
    LET only_dirs ==
            {ds[k].path : k \in {k \in 1..Len(ds) :
                /\ ds[k].diff_type \in {"LeftOnly", "RightOnly"}
                /\ (UnwrapOrFalse(ds[k].left_is_dir)
                    \/ UnwrapOrFalse(ds[k].right_is_dir))}}
        Keep(d) == ~\E dir \in only_dirs : d.path # dir /\ Parent(d.path) = dir
    IN  SelectSeq(ds, Keep)

filter_nested_diffs(ds) ==
    LET only_dirs ==
            {ds[k].path : k \in {k \in 1..Len(ds) :
                /\ ds[k].diff_type \in {"LeftOnly", "RightOnly"}
                /\ (UnwrapOrFalse(ds[k].left_is_dir)
                    \/ UnwrapOrFalse(ds[k].right_is_dir))}}
        Keep(d) == ~\E dir \in only_dirs : d.path # dir /\ StartsWith(d.path, dir)
    IN  SelectSeq(ds, Keep)

compare_files(lt, rt, p) == lt[p].content = rt[p].content

\* the body of `for rel_path in all_paths`: diffs after rel_path
ClassifyPath(ds, rel_path, lt, rt) ==
    LET left_exists  == Exists(lt, rel_path)
        right_exists == Exists(rt, rel_path)
    IN  CASE left_exists /\ ~right_exists ->
                LET is_dir == IsDir(lt, rel_path)
                IN  IF ~is_dir \/ ~has_parent_diff(ds, rel_path, "LeftOnly")
                    THEN Append(ds, left_only(rel_path, is_dir))
                    ELSE ds
          [] ~left_exists /\ right_exists ->
                LET is_dir == IsDir(rt, rel_path)
                IN  IF ~is_dir \/ ~has_parent_diff(ds, rel_path, "RightOnly")
                    THEN Append(ds, right_only(rel_path, is_dir))
                    ELSE ds
          [] left_exists /\ right_exists ->
                LET left_is_dir  == IsDir(lt, rel_path)
                    right_is_dir == IsDir(rt, rel_path)
                IN  IF left_is_dir # right_is_dir
                    THEN Append(ds, type_mismatch(rel_path, left_is_dir, right_is_dir))
                    ELSE IF ~left_is_dir /\ ~compare_files(lt, rt, rel_path)
                    THEN Append(ds, modified(rel_path))
                    ELSE ds
          [] OTHER -> ds

RECURSIVE ClassifyAll(_, _, _, _)
ClassifyAll(paths, ds, lt, rt) ==
    IF paths = <<>> THEN ds
    ELSE ClassifyAll(Tail(paths), ClassifyPath(ds, Head(paths), lt, rt), lt, rt)

\* left_walk and right_walk are the orders in which the two walks yield
compare_directories(lt, rt, left_walk, right_walk) ==
    LET left_paths  == collect_paths(left_walk)
        right_paths == collect_paths(right_walk)
        all_paths   == BTreeExtend(left_paths, right_paths)
    IN  filter_nested_diffs(ClassifyAll(all_paths, <<>>, lt, rt))

----------------------------------------------------------------------------
(* File operations of merge/strategy.rs on a tree.  An operation gives the  *)
(* tree it leaves and whether it succeeded; a failing operation leaves what *)
(* it had done before the failure.                                          *)

FsOk(t) == [ok |-> TRUE, tree |-> t]

FsErr(t) == [ok |-> FALSE, tree |-> t]

\* tree t without path p, what lies below p staying
RemovePathOnly(t, p) == [q \in DOMAIN t \ {p} |-> t[q]]

\* tree t without path p and everything below it
RemoveSubtree(t, p) == [q \in {q \in DOMAIN t : ~StartsWith(q, p)} |-> t[q]]

\* fs::remove_dir_all
remove_dir_all(t, p) == IF IsDir(t, p) THEN FsOk(RemoveSubtree(t, p)) ELSE FsErr(t)

\* fs::remove_file
remove_file(t, p) ==
    IF Exists(t, p) /\ ~IsDir(t, p) THEN FsOk(RemoveSubtree(t, p)) ELSE FsErr(t)

remove_entry(t, p) ==
    IF IsDir(t, p) THEN remove_dir_all(t, p)
    ELSE IF Exists(t, p) THEN remove_file(t, p)
    ELSE FsOk(t)

\* fs::create_dir_all: fails on a component that is a file
create_dir_all(t, p) ==
    IF \E k \in 1..Len(p) : Exists(t, SubSeq(p, 1, k)) /\ ~IsDir(t, SubSeq(p, 1, k))
    THEN FsErr(t)
    ELSE FsOk([q \in DOMAIN t \cup {SubSeq(p, 1, k) : k \in 1..Len(p)} |->
                  IF q \in DOMAIN t THEN t[q] ELSE DirNode])

\* fs::copy of the file sp of tree st to the path dp of tree dt
fs_copy(st, sp, dt, dp) ==
    IF \/ ~Exists(st, sp)
       \/ IsDir(st, sp)
       \/ IsDir(dt, dp)
       \/ (Len(dp) > 1 /\ ~IsDir(dt, Parent(dp)))
    THEN FsErr(dt)
    ELSE FsOk(AddNode(dt, dp, st[sp]))

\* copy_dir_all: the outcomes over the orders of read_dir
RECURSIVE copy_dir_all(_, _, _, _), CopyDirEntries(_, _, _, _)
copy_dir_all(st, sp, dt, dp) ==
    LET made == create_dir_all(dt, dp)
    IN  IF ~made.ok THEN {made}
        ELSE CopyDirEntries(st, Children(st, sp), made.tree, dp)

\* the loop over read_dir(src): entries S still to copy below dp
CopyDirEntries(st, S, dt, dp) ==
    IF S = {} THEN {FsOk(dt)}
    ELSE UNION {
           LET dst_path == Append(dp, c[Len(c)])
               outs == IF IsDir(st, c) THEN copy_dir_all(st, c, dt, dst_path)
                       ELSE {fs_copy(st, c, dt, dst_path)}
           IN  UNION {IF o.ok THEN CopyDirEntries(st, S \ {c}, o.tree, dp) ELSE {o} :
                         o \in outs} :
           c \in S}

copy_entry(st, sp, dt, dp) ==
    LET made == create_dir_all(dt, Parent(dp))
    IN  IF ~made.ok THEN {made}
        ELSE IF IsDir(st, sp) THEN copy_dir_all(st, sp, made.tree, dp)
        ELSE {fs_copy(st, sp, made.tree, dp)}

FileAction == {"Copy", "Delete", "Skip"}

\* the two trees an action leaves, and whether it returned Ok
ActionResult(ok, lt, rt) == [ok |-> ok, left |-> lt, right |-> rt]

apply_file_action(entry, action, lt, rt) ==
    CASE entry.diff_type = "LeftOnly" /\ action = "Copy" ->
            {ActionResult(o.ok, lt, o.tree) : o \in copy_entry(lt, entry.path, rt, entry.path)}
      [] entry.diff_type = "LeftOnly" /\ action = "Delete" ->
            LET o == remove_entry(lt, entry.path) IN {ActionResult(o.ok, o.tree, rt)}
      [] entry.diff_type = "RightOnly" /\ action = "Copy" ->
            {ActionResult(o.ok, o.tree, rt) : o \in copy_entry(rt, entry.path, lt, entry.path)}
      [] entry.diff_type = "RightOnly" /\ action = "Delete" ->
            LET o == remove_entry(rt, entry.path) IN {ActionResult(o.ok, lt, o.tree)}
      [] entry.diff_type = "TypeMismatch" /\ action = "Copy" ->
            LET removed == remove_entry(rt, entry.path)
            IN  IF ~removed.ok THEN {ActionResult(FALSE, lt, removed.tree)}
                ELSE {ActionResult(o.ok, lt, o.tree) :
                         o \in copy_entry(lt, entry.path, removed.tree, entry.path)}
      [] entry.diff_type = "TypeMismatch" /\ action = "Delete" ->
            LET o == remove_entry(rt, entry.path) IN {ActionResult(o.ok, lt, o.tree)}
      [] OTHER -> {ActionResult(TRUE, lt, rt)}

----------------------------------------------------------------------------
(* Values of the variables an operation does not use *)

ReplayIdle ==
    /\ choices = <<>>
    /\ hunk_idx = 0
    /\ merged_left_lines = <<>>
    /\ merged_right_lines = <<>>
    /\ merged_left = <<>>
    /\ merged_right = <<>>

ExtractIdle ==
    /\ left_lines_vec = <<>>
    /\ right_lines_vec = <<>>
    /\ hunks = <<>>

SessionIdle ==
    /\ disk_left = <<>>
    /\ disk_right = <<>>
    /\ hunk_choices = <<>>
    /\ dry_run = FALSE
    /\ skip_binary = FALSE
    /\ quit = FALSE

TreeIdle ==
    /\ left_tree = <<>>
    /\ right_tree = <<>>
    /\ diffs = <<>>
    /\ applied = <<>>
    /\ entry_pos = 0
    /\ input = ""

TextIdle ==
    /\ left_content = <<>>
    /\ right_content = <<>>
    /\ ops = <<>>

\* the locals of the body of the loop before its first read
NoLocals ==
    [left_exists |-> FALSE, right_exists |-> FALSE, left_is_dir |-> FALSE,
     left_content |-> <<>>]

InvokeIdle ==
    /\ engine_ops = <<>>
    /\ first_hunks = None

ScanIdle ==
    /\ walk_stack = <<>>
    /\ scan_left_paths = <<>>
    /\ scan_right_paths = <<>>
    /\ scan_paths = <<>>
    /\ scan_pos = 0
    /\ scan_local = NoLocals
    /\ vanished = <<>>
    /\ unreadable = {}

----------------------------------------------------------------------------
(* Replay of apply_hunk_choices, one edit operation per step *)

Init ==
    /\ ScanIdle
    /\ InvokeIdle
    /\ eof = FALSE
    /\ \E p \in TextPairs : left_content = p[1] /\ right_content = p[2]
    /\ ops \in DiffOps(left_content, right_content)
    /\ choices \in ChoiceLists(NumHunks(ops))
    /\ op_pos = 0
    /\ hunk_idx = 0
    /\ merged_left_lines = <<>>
    /\ merged_right_lines = <<>>
    /\ merged_left = <<>>
    /\ merged_right = <<>>
    /\ pc = "replay"
    /\ ExtractIdle
    /\ SessionIdle
    /\ TreeIdle

Step(tag) ==
    /\ pc = "replay"
    /\ op_pos < Len(ops)
    /\ ops[op_pos + 1].tag = tag
    /\ LET buf == ReplayOp(ops[op_pos + 1], ChoiceAt(choices, hunk_idx),
                           Lines(left_content), Lines(right_content),
                           Buffers(merged_left_lines, merged_right_lines))
       IN  /\ merged_left_lines' = buf.left
           /\ merged_right_lines' = buf.right
    /\ op_pos' = op_pos + 1
    /\ hunk_idx' = IF tag = "Equal" THEN hunk_idx ELSE hunk_idx + 1
    /\ UNCHANGED <<eof, invokeVars, scanVars, textVars, choices, merged_left, merged_right, pc,
                   extractVars, sessionVars, treeVars>>

ReplayEqual == Step("Equal")

ReplayDelete == Step("Delete")

ReplayInsert == Step("Insert")

ReplayReplace == Step("Replace")

JoinOutputs ==
    /\ pc = "replay"
    /\ op_pos = Len(ops)
    /\ LET tr == ResolveTrailing(choices, EndsWithNewline(left_content),
                                 EndsWithNewline(right_content))
       IN  /\ merged_left' = JoinWithTrailing(merged_left_lines, tr[1])
           /\ merged_right' = JoinWithTrailing(merged_right_lines, tr[2])
    /\ pc' = "done"
    /\ UNCHANGED <<eof, invokeVars, scanVars, textVars, choices, op_pos, hunk_idx,
                   merged_left_lines, merged_right_lines, extractVars, sessionVars,
                   treeVars>>

Next ==
    \/ ReplayEqual
    \/ ReplayDelete
    \/ ReplayInsert
    \/ ReplayReplace
    \/ JoinOutputs

Spec == Init /\ [][Next]_vars

----------------------------------------------------------------------------
(* extract_hunks, one edit operation per step *)

ExtractInit ==
    /\ ScanIdle
    /\ InvokeIdle
    /\ eof = FALSE
    /\ \E p \in TextPairs : left_content = p[1] /\ right_content = p[2]
    /\ ops \in DiffOps(left_content, right_content)
    /\ op_pos = 0
    /\ pc = "split"
    /\ ExtractIdle
    /\ ReplayIdle
    /\ SessionIdle
    /\ TreeIdle

\* lines().collect() of both texts
SplitLines ==
    /\ pc = "split"
    /\ left_lines_vec' = Lines(left_content)
    /\ right_lines_vec' = Lines(right_content)
    /\ pc' = IF Len(ops) = 0 THEN "extracted" ELSE "extract"
    /\ UNCHANGED <<eof, invokeVars, scanVars, textVars, replayVars, sessionVars,
                   treeVars, hunks, op_pos>>

ExtractStep(tag) ==
    /\ pc = "extract"
    /\ op_pos < Len(ops)
    /\ ops[op_pos + 1].tag = tag
    /\ hunks' = hunks \o HunksOfOp(ops[op_pos + 1], left_lines_vec, right_lines_vec,
                                   EndsWithNewline(left_content),
                                   EndsWithNewline(right_content), ContextLines)
    /\ op_pos' = op_pos + 1
    /\ pc' = IF op_pos + 1 = Len(ops) THEN "extracted" ELSE "extract"
    /\ UNCHANGED <<eof, invokeVars, scanVars, textVars, replayVars, sessionVars, treeVars,
                   left_lines_vec, right_lines_vec>>

ExtractEqual == ExtractStep("Equal")

ExtractDelete == ExtractStep("Delete")

ExtractInsert == ExtractStep("Insert")

ExtractReplace == ExtractStep("Replace")

ExtractNext ==
    \/ SplitLines
    \/ ExtractEqual
    \/ ExtractDelete
    \/ ExtractInsert
    \/ ExtractReplace

SpecExtract == ExtractInit /\ [][ExtractNext]_vars

----------------------------------------------------------------------------
(* extract_hunks called twice and apply_hunk_choices called once on the    *)
(* same two texts.  Each call asks the engine anew; TextDiff::from_lines   *)
(* has no deadline and keeps no state, so it is a function of the two      *)
(* texts: engine_ops is its value for the pair, whichever script that is.  *)

InvokeInit ==
    /\ ScanIdle
    /\ eof = FALSE
    /\ \E p \in TextPairs : left_content = p[1] /\ right_content = p[2]
    /\ engine_ops \in DiffOps(left_content, right_content)
    /\ first_hunks = None
    /\ ops = <<>>
    /\ op_pos = 0
    /\ pc = "invoke"
    /\ ExtractIdle
    /\ ReplayIdle
    /\ SessionIdle
    /\ TreeIdle

\* a call of extract_hunks up to its loop: lines().collect() of both texts,
\* TextDiff::from_lines, let mut hunks = Vec::new(); the second call starts
\* when the first has returned its hunks
InvokeExtract ==
    /\ \/ pc = "invoke"
       \/ pc = "extracted" /\ first_hunks = None
    /\ first_hunks' = IF pc = "extracted" THEN Some(hunks) ELSE first_hunks
    /\ left_lines_vec' = Lines(left_content)
    /\ right_lines_vec' = Lines(right_content)
    /\ ops' = engine_ops
    /\ hunks' = <<>>
    /\ op_pos' = 0
    /\ pc' = IF Len(engine_ops) = 0 THEN "extracted" ELSE "extract"
    /\ UNCHANGED <<eof, engine_ops, scanVars, left_content, right_content, replayVars,
                   sessionVars, treeVars>>

\* a call of apply_hunk_choices up to its loop: TextDiff::from_lines,
\* let mut hunk_idx = 0, the two empty buffers
InvokeApply ==
    /\ pc = "extracted"
    /\ first_hunks # None
    /\ ops' = engine_ops
    /\ choices' \in ChoiceLists(NumHunks(engine_ops))
    /\ op_pos' = 0
    /\ hunk_idx' = 0
    /\ merged_left_lines' = <<>>
    /\ merged_right_lines' = <<>>
    /\ pc' = "replay"
    /\ UNCHANGED <<eof, invokeVars, scanVars, left_content, right_content, merged_left,
                   merged_right, extractVars, sessionVars, treeVars>>

InvokeNext ==
    \/ InvokeExtract
    \/ ExtractEqual
    \/ ExtractDelete
    \/ ExtractInsert
    \/ ExtractReplace
    \/ InvokeApply
    \/ ReplayEqual
    \/ ReplayDelete
    \/ ReplayInsert
    \/ ReplayReplace
    \/ JoinOutputs

SpecInvoke == InvokeInit /\ [][InvokeNext]_vars

----------------------------------------------------------------------------
(* main: the Modified branch for one file pair *)

SessionInit ==
    /\ ScanIdle
    /\ InvokeIdle
    /\ eof = FALSE
    /\ \E p \in TextPairs : disk_left = p[1] /\ disk_right = p[2]
    /\ disk_left # disk_right
    /\ dry_run \in BOOLEAN
    /\ skip_binary = FALSE
    /\ quit = FALSE
    /\ hunk_choices = <<>>
    /\ op_pos = 0
    /\ pc = "read"
    /\ TextIdle
    /\ ExtractIdle
    /\ ReplayIdle
    /\ TreeIdle

\* read_text_file of both sides, extract_hunks, hunks.is_empty()
ReadAndExtract ==
    /\ pc = "read"
    /\ left_content' = disk_left
    /\ right_content' = disk_right
    /\ ops' \in DiffOps(disk_left, disk_right)
    /\ hunks' = ExtractHunks(disk_left, disk_right, ops', ContextLines)
    /\ pc' = IF hunks' = <<>> THEN "next_entry" ELSE "prompt"
    /\ UNCHANGED <<eof, invokeVars, scanVars, replayVars, sessionVars, treeVars, left_lines_vec,
                   right_lines_vec, op_pos>>

\* apply_hunk_merge: fs::write of both files
ApplyHunkMerge(merged) ==
    /\ disk_left' = merged[1]
    /\ disk_right' = merged[2]

\* HunkUserChoice::Choice(choice)
HunkChoose(choice) ==
    /\ pc = "prompt"
    /\ hunk_choices' = Append(hunk_choices, choice)
    /\ IF choice # "Skip" /\ ~dry_run
       THEN ApplyHunkMerge(ApplyHunkChoices(left_content, right_content, ops,
                                            hunk_choices'))
       ELSE UNCHANGED <<disk_left, disk_right>>
    /\ pc' = IF Len(hunk_choices') = Len(hunks) THEN "next_entry" ELSE "prompt"
    /\ UNCHANGED <<eof, invokeVars, scanVars, textVars, replayVars, extractVars,
                   treeVars, dry_run, skip_binary, quit, op_pos>>

HunkChooseLeft == HunkChoose("Left")

HunkChooseRight == HunkChoose("Right")

HunkChooseSkip == HunkChoose("Skip")

\* HunkUserChoice::SkipFile
HunkSkipFile ==
    /\ pc = "prompt"
    /\ pc' = "next_entry"
    /\ UNCHANGED <<eof, invokeVars, scanVars, textVars, replayVars, extractVars,
                   sessionVars, treeVars, op_pos>>

\* HunkUserChoice::Quit
HunkQuit ==
    /\ pc = "prompt"
    /\ quit' = TRUE
    /\ pc' = "summary"
    /\ UNCHANGED <<eof, invokeVars, scanVars, textVars, replayVars, extractVars,
                   treeVars, disk_left, disk_right, hunk_choices, dry_run, skip_binary,
                   op_pos>>

SessionNext ==
    \/ ReadAndExtract
    \/ HunkChooseLeft
    \/ HunkChooseRight
    \/ HunkChooseSkip
    \/ HunkSkipFile
    \/ HunkQuit

SpecSession == SessionInit /\ [][SessionNext]_vars

----------------------------------------------------------------------------
(* compare_directories on two trees *)

CompareInit ==
    /\ ScanIdle
    /\ InvokeIdle
    /\ eof = FALSE
    /\ left_tree \in Trees
    /\ right_tree \in Trees
    /\ diffs = <<>>
    /\ applied = <<>>
    /\ entry_pos = 0
    /\ input = ""
    /\ op_pos = 0
    /\ pc = "compare"
    /\ TextIdle
    /\ ExtractIdle
    /\ ReplayIdle
    /\ SessionIdle

CompareDirectories ==
    /\ pc = "compare"
    /\ \E left_walk \in WalkDir(left_tree), right_walk \in WalkDir(right_tree) :
          diffs' = compare_directories(left_tree, right_tree, left_walk, right_walk)
    /\ pc' = "compared"
    /\ UNCHANGED <<eof, invokeVars, scanVars, textVars, replayVars, extractVars, sessionVars,
                   left_tree, right_tree, applied, entry_pos, input, op_pos>>

CompareNext == CompareDirectories

SpecCompare == CompareInit /\ [][CompareNext]_vars

----------------------------------------------------------------------------
(* apply_file_action on one entry of two trees *)

\* the pairs of trees an operation is run on
TreePairs ==
    {tp \in Trees \X Trees :
        Cardinality(DOMAIN tp[1]) + Cardinality(DOMAIN tp[2]) <= MaxPairNodes}

\* the entries of the paths of two trees: DiffEntry::left_only, right_only,
\* type_mismatch and modified, each for a path of its kind
EntriesOf(lt, rt) ==
    UNION {EntrySet(ClassifyPath(<<>>, q, lt, rt)) : q \in DOMAIN lt \cup DOMAIN rt}

ActionInit ==
    /\ ScanIdle
    /\ InvokeIdle
    /\ eof = FALSE
    /\ \E tp \in TreePairs : left_tree = tp[1] /\ right_tree = tp[2]
    /\ diffs = <<>>
    /\ applied = <<>>
    /\ entry_pos = 0
    /\ input = ""
    /\ op_pos = 0
    /\ pc = "act"
    /\ TextIdle
    /\ ExtractIdle
    /\ ReplayIdle
    /\ SessionIdle

\* apply_file_action(entry, action, left_root, right_root)
ApplyFileAction(action) ==
    /\ pc = "act"
    /\ \E entry \in EntriesOf(left_tree, right_tree) :
          /\ applied' = <<entry, action>>
          /\ \E res \in apply_file_action(entry, action, left_tree, right_tree) :
                /\ left_tree' = res.left
                /\ right_tree' = res.right
                /\ pc' = IF res.ok THEN "acted" ELSE "failed"
    /\ UNCHANGED <<eof, invokeVars, scanVars, textVars, replayVars, extractVars, sessionVars, diffs,
                   entry_pos, input, op_pos>>

ActionNext == \E action \in FileAction : ApplyFileAction(action)

SpecAction == ActionInit /\ [][ActionNext]_vars

----------------------------------------------------------------------------
(* compare_directories on a filesystem that is not quiescent or not fully   *)
(* readable: one filesystem read of the walks and of the classification     *)
(* loop per step, and one paths.insert of collect_paths per step.  A path   *)
(* can vanish between any two steps, and a file can be unreadable.          *)

\* fs::read of the file p of one side: None stands for Err
fs_read(t, p, side, unread) ==
    IF Exists(t, p) /\ ~IsDir(t, p) /\ <<side, p>> \notin unread
    THEN Some(t[p].content)
    ELSE None

\* the files of a tree, each with its side
FilesOf(t, side) == {<<side, q>> : q \in {q \in DOMAIN t : ~t[q].is_dir}}

ScanInit ==
    /\ \E tp \in TreePairs : left_tree = tp[1] /\ right_tree = tp[2]
    /\ unreadable \in {{}} \cup {{f} : f \in FilesOf(left_tree, "left")
                                          \cup FilesOf(right_tree, "right")}
    /\ InvokeIdle
    /\ walk_stack = <<>>
    /\ scan_left_paths = <<>>
    /\ scan_right_paths = <<>>
    /\ scan_paths = <<>>
    /\ scan_pos = 0
    /\ scan_local = NoLocals
    /\ vanished = <<>>
    /\ eof = FALSE
    /\ diffs = <<>>
    /\ applied = <<>>
    /\ entry_pos = 0
    /\ input = ""
    /\ op_pos = 0
    /\ pc = "walk_left"
    /\ TextIdle
    /\ ExtractIdle
    /\ ReplayIdle
    /\ SessionIdle

\* the orders in which read_dir can list the entries of directory d
RECURSIVE ListingsOf(_)
ListingsOf(S) ==
    IF S = {} THEN {<<>>}
    ELSE UNION {{<<c>> \o r : r \in ListingsOf(S \ {c})} : c \in S}

\* the walk opens a directory (fs::read_dir): the root at the first call of
\* the iterator, which min_depth(1) does not yield, else the directory that
\* is the next entry of the innermost listing, which the loop of
\* collect_paths then inserts.  The entry is a directory by what the listing
\* said: a directory that is gone by now is the Err of `entry?`.
WalkOpenDir(side) ==
    /\ pc = IF side = "left" THEN "walk_left" ELSE "walk_right"
    /\ LET t      == IF side = "left" THEN left_tree ELSE right_tree
           paths  == IF side = "left" THEN scan_left_paths ELSE scan_right_paths
           Opened(d) == [dir |-> d, listed |-> FALSE, entries |-> <<>>]
       IN  IF walk_stack = <<>>
           THEN /\ walk_stack' = <<Opened(<<>>)>>
                /\ UNCHANGED <<scan_left_paths, scan_right_paths, pc>>
           ELSE LET top == Head(walk_stack)
                IN  /\ top.listed
                    /\ top.entries # <<>>
                    /\ Head(top.entries).is_dir
                    /\ LET dent == Head(top.entries)
                           rest == [top EXCEPT !.entries = Tail(top.entries)]
                           found == BTreeInsert(paths, dent.path)
                       IN  IF IsDir(t, dent.path)
                           THEN /\ walk_stack' = <<Opened(dent.path), rest>>
                                                     \o Tail(walk_stack)
                                /\ scan_left_paths' = IF side = "left" THEN found
                                                      ELSE scan_left_paths
                                /\ scan_right_paths' = IF side = "right" THEN found
                                                       ELSE scan_right_paths
                                /\ UNCHANGED pc
                           ELSE /\ pc' = "compare_failed"
                                /\ UNCHANGED <<walk_stack, scan_left_paths,
                                               scan_right_paths>>
    /\ UNCHANGED <<eof, invokeVars, textVars, replayVars, extractVars, sessionVars, treeVars,
                   scan_paths, scan_pos, scan_local, vanished, unreadable, op_pos>>

\* the iterator reads the entries of the innermost directory, opened and not
\* read yet, each with its file type; nothing if the directory was removed
\* since it was opened.  No path is inserted by this read.
WalkListDir(side) ==
    /\ pc = IF side = "left" THEN "walk_left" ELSE "walk_right"
    /\ walk_stack # <<>>
    /\ ~Head(walk_stack).listed
    /\ LET t   == IF side = "left" THEN left_tree ELSE right_tree
           top == Head(walk_stack)
       IN  \E listing \in ListingsOf(Children(t, top.dir)) :
              LET dents == [k \in 1..Len(listing) |->
                               [path |-> listing[k], is_dir |-> IsDir(t, listing[k])]]
              IN  walk_stack' = <<[top EXCEPT !.listed = TRUE, !.entries = dents]>>
                                    \o Tail(walk_stack)
    /\ UNCHANGED <<eof, invokeVars, textVars, replayVars, extractVars, sessionVars, treeVars,
                   scan_left_paths, scan_right_paths, scan_paths, scan_pos, scan_local,
                   vanished, unreadable, op_pos, pc>>

\* the next entry of the innermost listing is not a directory: the iterator
\* yields it without another read and the loop of collect_paths inserts it
WalkFileEntry(side) ==
    /\ pc = IF side = "left" THEN "walk_left" ELSE "walk_right"
    /\ walk_stack # <<>>
    /\ LET paths == IF side = "left" THEN scan_left_paths ELSE scan_right_paths
           top   == Head(walk_stack)
       IN  /\ top.listed
           /\ top.entries # <<>>
           /\ ~Head(top.entries).is_dir
           /\ LET found == BTreeInsert(paths, Head(top.entries).path)
              IN  /\ scan_left_paths' = IF side = "left" THEN found ELSE scan_left_paths
                  /\ scan_right_paths' = IF side = "right" THEN found
                                         ELSE scan_right_paths
           /\ walk_stack' = <<[top EXCEPT !.entries = Tail(top.entries)]>>
                                \o Tail(walk_stack)
    /\ UNCHANGED <<eof, invokeVars, textVars, replayVars, extractVars, sessionVars, treeVars,
                   scan_paths, scan_pos, scan_local, vanished, unreadable, op_pos, pc>>

\* the innermost listing is at its end: the iterator leaves the directory.
\* Leaving the root ends the walk: the end of the left walk starts the right
\* walk, the end of the right walk gives all_paths, the union.
WalkEndDir(side) ==
    /\ pc = IF side = "left" THEN "walk_left" ELSE "walk_right"
    /\ walk_stack # <<>>
    /\ Head(walk_stack).listed
    /\ Head(walk_stack).entries = <<>>
    /\ walk_stack' = Tail(walk_stack)
    /\ IF Tail(walk_stack) # <<>>
       THEN UNCHANGED <<scan_paths, pc>>
       ELSE IF side = "left"
       THEN /\ pc' = "walk_right"
            /\ UNCHANGED scan_paths
       ELSE /\ scan_paths' = BTreeExtend(scan_left_paths, scan_right_paths)
            /\ pc' = "for_rel_path"
    /\ UNCHANGED <<eof, invokeVars, textVars, replayVars, extractVars, sessionVars, treeVars,
                   scan_left_paths, scan_right_paths, scan_pos, scan_local, vanished,
                   unreadable, op_pos>>

\* the path the loop is at
rel_path == scan_paths[scan_pos + 1]

\* the path was collected by the walk of that side and the exists() of the
\* path on that side lies ahead of the loop
NotYetLookedAt(side, p) ==
    LET paths == IF side = "left" THEN scan_left_paths ELSE scan_right_paths
    IN  /\ \E k \in 1..Len(paths) : paths[k] = p
        /\ \/ pc \in {"walk_left", "walk_right"}
           \/ \E k \in 1..Len(scan_paths) :
                 /\ scan_paths[k] = p
                 /\ \/ k > scan_pos + 1
                    \/ /\ k = scan_pos + 1
                       /\ pc \in (IF side = "left" THEN {"for_rel_path"}
                                  ELSE {"for_rel_path", "right_exists"})

\* another process removes a path, with what lies below it, from one side
\* between two filesystem reads of the walks and the loop
Vanish(side) ==
    /\ pc \in {"walk_left", "walk_right", "for_rel_path", "right_exists", "is_dir",
               "left_is_dir", "right_is_dir", "read_left", "read_right"}
    /\ vanished = <<>>
    /\ \E p \in DOMAIN (IF side = "left" THEN left_tree ELSE right_tree) :
          /\ vanished' = <<side, p, NotYetLookedAt(side, p)>>
          /\ left_tree' = IF side = "left" THEN RemoveSubtree(left_tree, p) ELSE left_tree
          /\ right_tree' = IF side = "right" THEN RemoveSubtree(right_tree, p)
                           ELSE right_tree
    /\ UNCHANGED <<eof, invokeVars, textVars, replayVars, extractVars, sessionVars, diffs, applied,
                   entry_pos, input, walk_stack, scan_left_paths, scan_right_paths,
                   scan_paths, scan_pos, scan_local, unreadable, op_pos, pc>>

\* what no step of the classification loop changes
ScanFrame ==
    UNCHANGED <<eof, invokeVars, textVars, replayVars, extractVars, sessionVars, left_tree,
                right_tree, applied, entry_pos, input, walk_stack, scan_left_paths,
                scan_right_paths, scan_paths, vanished, unreadable, op_pos>>

\* the end of the body of the loop with the list ds: on to the next path
NextPath(ds) ==
    /\ diffs' = ds
    /\ scan_pos' = scan_pos + 1
    /\ scan_local' = NoLocals
    /\ pc' = "for_rel_path"

\* for rel_path in all_paths: let left_exists = left_full.exists()
LeftExists ==
    /\ pc = "for_rel_path"
    /\ scan_pos < Len(scan_paths)
    /\ scan_local' = [scan_local EXCEPT !.left_exists = Exists(left_tree, rel_path)]
    /\ pc' = "right_exists"
    /\ UNCHANGED <<diffs, scan_pos>>
    /\ ScanFrame

\* let right_exists = right_full.exists(); match (left_exists, right_exists)
RightExists ==
    /\ pc = "right_exists"
    /\ LET right_exists == Exists(right_tree, rel_path)
       IN  IF ~scan_local.left_exists /\ ~right_exists
           THEN NextPath(diffs)
           ELSE /\ scan_local' = [scan_local EXCEPT !.right_exists = right_exists]
                /\ pc' = IF scan_local.left_exists /\ right_exists
                         THEN "left_is_dir" ELSE "is_dir"
                /\ UNCHANGED <<diffs, scan_pos>>
    /\ ScanFrame

\* the arms (true, false) and (false, true): is_dir() of the side that has
\* the path, has_parent_diff, diffs.push
OneSideIsDir ==
    /\ pc = "is_dir"
    /\ IF scan_local.left_exists
       THEN LET is_dir == IsDir(left_tree, rel_path)
            IN  IF ~is_dir \/ ~has_parent_diff(diffs, rel_path, "LeftOnly")
                THEN NextPath(Append(diffs, left_only(rel_path, is_dir)))
                ELSE NextPath(diffs)
       ELSE LET is_dir == IsDir(right_tree, rel_path)
            IN  IF ~is_dir \/ ~has_parent_diff(diffs, rel_path, "RightOnly")
                THEN NextPath(Append(diffs, right_only(rel_path, is_dir)))
                ELSE NextPath(diffs)
    /\ ScanFrame

\* the arm (true, true): let left_is_dir = left_full.is_dir()
LeftIsDir ==
    /\ pc = "left_is_dir"
    /\ scan_local' = [scan_local EXCEPT !.left_is_dir = IsDir(left_tree, rel_path)]
    /\ pc' = "right_is_dir"
    /\ UNCHANGED <<diffs, scan_pos>>
    /\ ScanFrame

\* let right_is_dir = right_full.is_dir(); if left_is_dir != right_is_dir
\* { push type_mismatch } else if !left_is_dir { compare_files }
RightIsDir ==
    /\ pc = "right_is_dir"
    /\ LET left_is_dir  == scan_local.left_is_dir
           right_is_dir == IsDir(right_tree, rel_path)
       IN  IF left_is_dir # right_is_dir
           THEN NextPath(Append(diffs, type_mismatch(rel_path, left_is_dir, right_is_dir)))
           ELSE IF ~left_is_dir
           THEN /\ pc' = "read_left"
                /\ UNCHANGED <<diffs, scan_pos, scan_local>>
           ELSE NextPath(diffs)
    /\ ScanFrame

\* the Err of compare_files(..)? leaving compare_directories
CompareFails ==
    /\ diffs' = <<>>
    /\ pc' = "compare_failed"
    /\ UNCHANGED <<scan_pos, scan_local>>

\* compare_files: let left_content = fs::read(left)?
ReadLeft ==
    /\ pc = "read_left"
    /\ LET data == fs_read(left_tree, rel_path, "left", unreadable)
       IN  IF data = None
           THEN CompareFails
           ELSE /\ \E c \in data : scan_local' = [scan_local EXCEPT !.left_content = c]
                /\ pc' = "read_right"
                /\ UNCHANGED <<diffs, scan_pos>>
    /\ ScanFrame

\* compare_files: let right_content = fs::read(right)?;
\* Ok(left_content == right_content), if !.. { push modified }
ReadRight ==
    /\ pc = "read_right"
    /\ LET data == fs_read(right_tree, rel_path, "right", unreadable)
       IN  IF data = None
           THEN CompareFails
           ELSE \E right_bytes \in data :
                   IF scan_local.left_content # right_bytes
                   THEN NextPath(Append(diffs, modified(rel_path)))
                   ELSE NextPath(diffs)
    /\ ScanFrame

\* after the loop: filter_nested_diffs(diffs), Ok(diffs)
ScanReturn ==
    /\ pc = "for_rel_path"
    /\ scan_pos = Len(scan_paths)
    /\ diffs' = filter_nested_diffs(diffs)
    /\ pc' = "compared"
    /\ UNCHANGED <<scan_pos, scan_local>>
    /\ ScanFrame

ScanNext ==
    \/ WalkOpenDir("left")
    \/ WalkListDir("left")
    \/ WalkFileEntry("left")
    \/ WalkEndDir("left")
    \/ WalkOpenDir("right")
    \/ WalkListDir("right")
    \/ WalkFileEntry("right")
    \/ WalkEndDir("right")
    \/ Vanish("left")
    \/ Vanish("right")
    \/ LeftExists
    \/ RightExists
    \/ OneSideIsDir
    \/ LeftIsDir
    \/ RightIsDir
    \/ ReadLeft
    \/ ReadRight
    \/ ScanReturn

SpecScan == ScanInit /\ [][ScanNext]_vars

----------------------------------------------------------------------------
(* main: the session over the entries of compare_directories *)

\* fs::write
fs_write(t, p, content) ==
    IF IsDir(t, p) \/ (Len(p) > 1 /\ ~IsDir(t, Parent(p)))
    THEN FsErr(t)
    ELSE FsOk(AddNode(t, p, FileNode(content)))

\* apply_hunk_merge on the two files of path p
apply_hunk_merge(lt, rt, p, merged) ==
    LET l == fs_write(lt, p, merged[1])
    IN  IF ~l.ok THEN ActionResult(FALSE, l.tree, rt)
        ELSE LET r == fs_write(rt, p, merged[2])
             IN  ActionResult(r.ok, l.tree, r.tree)

\* the zero byte
NUL == "NUL"

\* content.len().min(8192): the length of the prefix searched for a zero byte
CheckLen == 8192

\* one unit of a content that stands for CheckLen - 1 bytes "a" in a row
Filler == "a*8191"

\* the number of bytes of a unit of a content
ByteLen(c) == IF c = Filler THEN CheckLen - 1 ELSE 1

\* content.len()
RECURSIVE ContentLen(_)
ContentLen(content) ==
    IF content = <<>> THEN 0 ELSE ByteLen(Head(content)) + ContentLen(Tail(content))

\* the whole content searched for a zero byte
contains_zero_anywhere(content) == \E k \in 1..Len(content) : content[k] = NUL

\* content[..check_len].contains(&0)
contains_zero(content) ==
    LET check_len == Min(ContentLen(content), CheckLen)
    IN  \E k \in 1..Len(content) :
            content[k] = NUL /\ ContentLen(SubSeq(content, 1, k)) <= check_len

\* read_text_file: None for a file with a zero byte in the prefix (and where
\* the read fails), else the text; the decoding keeps every ASCII byte
read_text_file(t, p) ==
    IF Exists(t, p) /\ ~IsDir(t, p) /\ ~contains_zero(t[p].content)
    THEN Some(t[p].content)
    ELSE None

\* is_binary_file: false where the open or the read fails (a missing path, a
\* directory), else a zero byte among the bytes of one read of 8192 bytes
is_binary_file(t, p) ==
    Exists(t, p) /\ ~IsDir(t, p) /\ contains_zero(t[p].content)

\* if args.skip_binary && is_binary_file(&path) { continue; } of the two
\* one-sided arms
SkipsBinary(diff, lt, rt) ==
    /\ skip_binary
    /\ \/ diff.diff_type = "LeftOnly" /\ is_binary_file(lt, diff.path)
       \/ diff.diff_type = "RightOnly" /\ is_binary_file(rt, diff.path)

\* the writes made whether or not dry_run is set
IfNotDryRunAlways(dry, outcomes, lt, rt) == outcomes

\* if !args.dry_run { ... }: the outcomes of the guarded writes
IfNotDryRun(dry, outcomes, lt, rt) ==
    IF dry THEN {ActionResult(TRUE, lt, rt)} ELSE outcomes

\* the loop going on to the next entry after quit
LoopEndsIgnoringQuit(q, pos, n) == pos = n

\* for diff in &diffs { if quit { break; } ... }
LoopEnds(q, pos, n) == q \/ pos = n

MainInit ==
    /\ ScanIdle
    /\ InvokeIdle
    /\ eof = FALSE
    /\ \E tp \in TreePairs : left_tree = tp[1] /\ right_tree = tp[2]
    /\ dry_run \in BOOLEAN
    /\ skip_binary \in BOOLEAN
    /\ quit = FALSE
    /\ diffs = <<>>
    /\ applied = <<>>
    /\ entry_pos = 0
    /\ input = ""
    /\ hunk_choices = <<>>
    /\ disk_left = <<>>
    /\ disk_right = <<>>
    /\ op_pos = 0
    /\ pc = "main_compare"
    /\ TextIdle
    /\ ExtractIdle
    /\ ReplayIdle

\* compare_directories, diffs.is_empty()
MainCompare ==
    /\ pc = "main_compare"
    /\ \E left_walk \in WalkDir(left_tree), right_walk \in WalkDir(right_tree) :
          diffs' = compare_directories(left_tree, right_tree, left_walk, right_walk)
    /\ pc' = IF diffs' = <<>> THEN "exit" ELSE "loop"
    /\ UNCHANGED <<eof, invokeVars, scanVars, textVars, replayVars, extractVars, sessionVars,
                   left_tree, right_tree, applied, entry_pos, input, op_pos>>

\* the top of the loop up to the prompt of the next entry or hunk
LoopTop ==
    /\ pc = "loop"
    /\ IF LoopEnds(quit, entry_pos, Len(diffs))
       THEN /\ pc' = "summary"
            /\ UNCHANGED <<textVars, hunks, hunk_choices, entry_pos>>
       ELSE LET diff == diffs[entry_pos + 1]
                l == read_text_file(left_tree, diff.path)
                r == read_text_file(right_tree, diff.path)
            IN  IF SkipsBinary(diff, left_tree, right_tree)
                THEN /\ pc' = "loop"
                     /\ entry_pos' = entry_pos + 1
                     /\ UNCHANGED <<textVars, hunks, hunk_choices>>
                ELSE IF diff.diff_type # "Modified"
                THEN /\ pc' = "entry_prompt"
                     /\ UNCHANGED <<textVars, hunks, hunk_choices, entry_pos>>
                ELSE IF l = None \/ r = None
                THEN /\ pc' = "loop"
                     /\ entry_pos' = entry_pos + 1
                     /\ UNCHANGED <<textVars, hunks, hunk_choices>>
                ELSE /\ \E lc \in l, rc \in r :
                           /\ left_content' = lc
                           /\ right_content' = rc
                           /\ ops' \in DiffOps(lc, rc)
                           /\ hunks' = ExtractHunks(lc, rc, ops', ContextLines)
                     /\ hunk_choices' = <<>>
                     /\ pc' = IF hunks' = <<>> THEN "loop" ELSE "hunk_prompt"
                     /\ entry_pos' = IF hunks' = <<>> THEN entry_pos + 1 ELSE entry_pos
    /\ UNCHANGED <<eof, invokeVars, scanVars, replayVars, left_lines_vec,
                   right_lines_vec, disk_left, disk_right, dry_run, skip_binary, quit,
                   left_tree, right_tree, diffs, applied, input, op_pos>>

\* the trees and the position after an entry-level decision
EntryDone(res) ==
    /\ left_tree' = res.left
    /\ right_tree' = res.right
    /\ entry_pos' = entry_pos + 1
    /\ pc' = IF res.ok THEN "loop" ELSE "error"

\* "c" and "d" at the prompt of a LeftOnly or RightOnly entry
EntryFileAction(key, action) ==
    /\ pc = "entry_prompt"
    /\ eof' = FALSE
    /\ diffs[entry_pos + 1].diff_type \in {"LeftOnly", "RightOnly"}
    /\ input' = key
    /\ \E res \in IfNotDryRun(dry_run,
                               apply_file_action(diffs[entry_pos + 1], action,
                                                 left_tree, right_tree),
                               left_tree, right_tree) :
          EntryDone(res)
    /\ UNCHANGED <<invokeVars, scanVars, textVars, replayVars, extractVars,
                   sessionVars, diffs, applied, op_pos>>

\* remove_dir_all or remove_file of the side that is overwritten
RemoveSide(t, p) == IF IsDir(t, p) THEN remove_dir_all(t, p) ELSE remove_file(t, p)

\* "l" at the prompt of a TypeMismatch entry: the left side overwrites the right
MismatchUseLeft(lt, rt, diff) ==
    LET removed == RemoveSide(rt, diff.path)
    IN  IF ~removed.ok THEN {ActionResult(FALSE, lt, removed.tree)}
        ELSE apply_file_action(diff, "Copy", lt, removed.tree)

\* "r": the right side overwrites the left, through a RightOnly copy
MismatchUseRight(lt, rt, diff) ==
    LET removed == RemoveSide(lt, diff.path)
        swapped_diff == [diff EXCEPT !.diff_type = "RightOnly"]
    IN  IF ~removed.ok THEN {ActionResult(FALSE, removed.tree, rt)}
        ELSE apply_file_action(swapped_diff, "Copy", removed.tree, rt)

EntryMismatch(key) ==
    /\ pc = "entry_prompt"
    /\ eof' = FALSE
    /\ diffs[entry_pos + 1].diff_type = "TypeMismatch"
    /\ input' = key
    /\ \E res \in IfNotDryRun(dry_run,
                               IF key = "l"
                               THEN MismatchUseLeft(left_tree, right_tree,
                                                    diffs[entry_pos + 1])
                               ELSE MismatchUseRight(left_tree, right_tree,
                                                     diffs[entry_pos + 1]),
                               left_tree, right_tree) :
          EntryDone(res)
    /\ UNCHANGED <<invokeVars, scanVars, textVars, replayVars, extractVars,
                   sessionVars, diffs, applied, op_pos>>

\* "s" at an entry prompt
EntrySkip ==
    /\ pc = "entry_prompt"
    /\ eof' = FALSE
    /\ input' = "s"
    /\ entry_pos' = entry_pos + 1
    /\ pc' = "loop"
    /\ UNCHANGED <<invokeVars, scanVars, textVars, replayVars, extractVars, sessionVars,
                   left_tree, right_tree, diffs, applied, op_pos>>

\* "q" at an entry prompt
EntryQuit ==
    /\ pc = "entry_prompt"
    /\ eof' = FALSE
    /\ input' = "q"
    /\ quit' = TRUE
    /\ entry_pos' = entry_pos + 1
    /\ pc' = "loop"
    /\ UNCHANGED <<invokeVars, scanVars, textVars, replayVars, extractVars,
                   disk_left, disk_right, hunk_choices, dry_run, skip_binary,
                   left_tree, right_tree, diffs, applied, op_pos>>

\* the answer prompt_for_hunk_choice turns into Choice(choice)
KeyOfChoice(choice) ==
    CASE choice = "Left" -> "l" [] choice = "Right" -> "r" [] choice = "Skip" -> "s"

\* HunkUserChoice::Choice(choice) at a hunk prompt
MainHunkChoose(choice) ==
    /\ pc = "hunk_prompt"
    /\ eof' = FALSE
    /\ input' = KeyOfChoice(choice)
    /\ hunk_choices' = Append(hunk_choices, choice)
    /\ \E res \in IfNotDryRun(dry_run \/ choice = "Skip",
                               {apply_hunk_merge(left_tree, right_tree,
                                    diffs[entry_pos + 1].path,
                                    ApplyHunkChoices(left_content, right_content, ops,
                                                     hunk_choices'))},
                               left_tree, right_tree) :
          /\ left_tree' = res.left
          /\ right_tree' = res.right
          /\ pc' = IF ~res.ok THEN "error"
                   ELSE IF Len(hunk_choices') = Len(hunks) THEN "loop"
                   ELSE "hunk_prompt"
          /\ entry_pos' = IF res.ok /\ Len(hunk_choices') = Len(hunks)
                          THEN entry_pos + 1 ELSE entry_pos
    /\ UNCHANGED <<invokeVars, scanVars, textVars, replayVars, extractVars,
                   disk_left, disk_right, dry_run, skip_binary, quit, diffs, applied,
                   op_pos>>

\* skip-file taken as the end of the session
SkipFileEndsSession ==
    /\ pc = "hunk_prompt"
    /\ eof' = FALSE
    /\ input' = "f"
    /\ quit' = TRUE
    /\ pc' = "summary"
    /\ UNCHANGED <<invokeVars, scanVars, textVars, replayVars, extractVars,
                   disk_left, disk_right, hunk_choices, dry_run, skip_binary,
                   left_tree, right_tree, diffs, applied, entry_pos, op_pos>>

\* HunkUserChoice::SkipFile
MainHunkSkipFile ==
    /\ pc = "hunk_prompt"
    /\ eof' = FALSE
    /\ input' = "f"
    /\ entry_pos' = entry_pos + 1
    /\ pc' = "loop"
    /\ UNCHANGED <<invokeVars, scanVars, textVars, replayVars, extractVars, sessionVars,
                   left_tree, right_tree, diffs, applied, op_pos>>

\* HunkUserChoice::Quit
MainHunkQuit ==
    /\ pc = "hunk_prompt"
    /\ eof' = FALSE
    /\ input' = "q"
    /\ quit' = TRUE
    /\ pc' = "summary"
    /\ UNCHANGED <<invokeVars, scanVars, textVars, replayVars, extractVars,
                   disk_left, disk_right, hunk_choices, dry_run, skip_binary,
                   left_tree, right_tree, diffs, applied, entry_pos, op_pos>>

\* the summary after the loop
Summary ==
    /\ pc = "summary"
    /\ pc' = "exit"
    /\ UNCHANGED <<eof, invokeVars, scanVars, textVars, replayVars, extractVars,
                   sessionVars, treeVars, op_pos>>

MainNext ==
    \/ MainCompare
    \/ LoopTop
    \/ EntryFileAction("c", "Copy")
    \/ EntryFileAction("d", "Delete")
    \/ \E key \in {"l", "r"} : EntryMismatch(key)
    \/ EntrySkip
    \/ EntryQuit
    \/ \E choice \in HunkChoice : MainHunkChoose(choice)
    \/ MainHunkSkipFile
    \/ MainHunkQuit
    \/ Summary

SpecMain == MainInit /\ [][MainNext]_vars

----------------------------------------------------------------------------
(* main over trees that hold binary files *)

\* contents with a zero byte at offset 0, at offset CheckLen - 1 and at offset
\* CheckLen, and a text without one
BinaryContents == {<<NUL, LF>>, <<Filler, NUL>>, <<Filler, "a", NUL>>, <<"a", LF>>}

\* the trees whose paths all lie in the root
FlatTrees ==
    UNION {[S -> {DirNode} \cup {FileNode(c) : c \in BinaryContents}] :
              S \in SUBSET {<<n>> : n \in Names}}

BinaryInit ==
    /\ ScanIdle
    /\ InvokeIdle
    /\ eof = FALSE
    /\ left_tree \in FlatTrees
    /\ right_tree \in FlatTrees
    /\ dry_run \in BOOLEAN
    /\ skip_binary \in BOOLEAN
    /\ quit = FALSE
    /\ diffs = <<>>
    /\ applied = <<>>
    /\ entry_pos = 0
    /\ input = ""
    /\ hunk_choices = <<>>
    /\ disk_left = <<>>
    /\ disk_right = <<>>
    /\ op_pos = 0
    /\ pc = "main_compare"
    /\ TextIdle
    /\ ExtractIdle
    /\ ReplayIdle

SpecBinary == BinaryInit /\ [][MainNext]_vars

----------------------------------------------------------------------------
(* main with answers no prompt recognises and with the end of the input *)

\* the answers a session can read: the keys of the prompts, another key and
\* the empty line
Answers == {"c", "d", "l", "r", "s", "q", "f", "x", ""}

\* the arms of the match at the prompt of an entry
EntryKeys(diff_type) ==
    IF diff_type = "TypeMismatch" THEN {"l", "r", "s", "q"} ELSE {"c", "d", "s", "q"}

\* the arms of the match of prompt_for_hunk_choice
HunkKeys == {"l", "r", "s", "f", "q"}

\* `_ => {}` at an entry prompt: the loop reads again
EntryUnrecognised(key) ==
    /\ pc = "entry_prompt"
    /\ eof' = FALSE
    /\ key \notin EntryKeys(diffs[entry_pos + 1].diff_type)
    /\ input' = key
    /\ UNCHANGED <<invokeVars, scanVars, textVars, replayVars, extractVars, sessionVars,
                   left_tree, right_tree, diffs, applied, entry_pos, op_pos, pc>>

\* `_ => {}` in prompt_for_hunk_choice: the loop reads again
HunkUnrecognised(key) ==
    /\ pc = "hunk_prompt"
    /\ eof' = FALSE
    /\ key \notin HunkKeys
    /\ input' = key
    /\ UNCHANGED <<invokeVars, scanVars, textVars, replayVars, extractVars, sessionVars,
                   left_tree, right_tree, diffs, applied, entry_pos, op_pos, pc>>

\* read_line returns Ok(0) at an entry prompt: the answer is empty, no arm
\* matches, and the loop reads again; nothing is kept of the end of input,
\* so the next read gives an answer where the stream has one by then
EntryEndOfInput ==
    /\ pc = "entry_prompt"
    /\ eof' = TRUE
    /\ input' = ""
    /\ UNCHANGED <<invokeVars, scanVars, textVars, replayVars, extractVars, sessionVars,
                   left_tree, right_tree, diffs, applied, entry_pos, op_pos, pc>>

\* read_single_char returns "" at the end of input: prompt_for_hunk_choice
\* reads again, and gets an answer where the stream has one by then
HunkEndOfInput ==
    /\ pc = "hunk_prompt"
    /\ eof' = TRUE
    /\ input' = ""
    /\ UNCHANGED <<invokeVars, scanVars, textVars, replayVars, extractVars, sessionVars,
                   left_tree, right_tree, diffs, applied, entry_pos, op_pos, pc>>

InputNext ==
    \/ MainNext
    \/ \E key \in Answers : EntryUnrecognised(key)
    \/ \E key \in Answers : HunkUnrecognised(key)
    \/ EntryEndOfInput
    \/ HunkEndOfInput

\* the loops of main and of the prompts keep running as long as a step is
\* possible
SpecInput == MainInit /\ [][InputNext]_vars /\ WF_vars(InputNext)

----------------------------------------------------------------------------
(* Properties of apply_hunk_choices (specification Spec) *)

\* one choice per non-Equal operation, all of them c
EveryHunkChose(c) ==
    /\ Len(choices) = NumHunks(ops)
    /\ \A k \in 1..Len(choices) : choices[k] = c

\* C1: All-Left identity. When every non-Equal operation is decided Left,
\* both outputs are the original left text, byte for byte.
C1_AllLeftIdentity ==
    (pc = "done" /\ EveryHunkChose("Left"))
        => (merged_left = left_content /\ merged_right = left_content)

\* C2: All-Right identity. When every non-Equal operation is decided Right,
\* both outputs are the original right text, byte for byte.
C2_AllRightIdentity ==
    (pc = "done" /\ EveryHunkChose("Right"))
        => (merged_left = right_content /\ merged_right = right_content)

\* C3: All-Skip identity. When every supplied choice is Skip (or the choice
\* list is empty), each output is its own original text, byte for byte.
C3_AllSkipIdentity ==
    (pc = "done" /\ \A k \in 1..Len(choices) : choices[k] = "Skip")
        => (merged_left = left_content /\ merged_right = right_content)

\* C7: trailing-newline rule. With c the last non-Skip choice supplied: if c
\* is Left both outputs end with a newline exactly when the left text does,
\* if c is Right exactly when the right text does, and without such a choice
\* each output keeps the trailing-newline presence of its own original.
C7_TrailingNewlineRule ==
    pc = "done" =>
        LET c == LastNonSkip(choices)
            l == EndsWithNewline(left_content)
            r == EndsWithNewline(right_content)
        IN  /\ c = "Left" =>
                (EndsWithNewline(merged_left) = l /\ EndsWithNewline(merged_right) = l)
            /\ c = "Right" =>
                (EndsWithNewline(merged_left) = r /\ EndsWithNewline(merged_right) = r)
            /\ c = "None" =>
                (EndsWithNewline(merged_left) = l /\ EndsWithNewline(merged_right) = r)

\* the lines of `lines` in [start, start + len), as far as they exist
LineSpan(lines, start, len) ==
    [k \in 1..(Max(start, Min(start + len, Len(lines))) - start) |-> lines[start + k]]

\* choices padded with Skip up to one choice per non-Equal operation
PaddedWithSkip(cs, n) ==
    [k \in 1..Max(Len(cs), n) |-> IF k <= Len(cs) THEN cs[k] ELSE "Skip"]

UndecidedStepKeepsBothSides ==
    (pc = "replay" /\ op_pos < Len(ops) /\ op_pos' = op_pos + 1
     /\ ops[op_pos + 1].tag # "Equal" /\ hunk_idx >= Len(choices))
        => LET op == ops[op_pos + 1]
           IN  /\ merged_left_lines' = merged_left_lines
                     \o LineSpan(Lines(left_content), op.old_index, op.old_len)
               /\ merged_right_lines' = merged_right_lines
                     \o LineSpan(Lines(right_content), op.new_index, op.new_len)

PaddingChangesNothing ==
    pc = "done" =>
        <<merged_left, merged_right>> =
            ApplyHunkChoices(left_content, right_content, ops,
                             PaddedWithSkip(choices, NumHunks(ops)))

\* C9: a missing choice defaults to Skip. The outputs for a short choice list
\* equal the outputs for the list padded with Skip, and an operation without
\* a choice keeps the left lines in the left buffer and the right lines in
\* the right buffer.
C9_MissingChoiceIsSkip ==
    [](PaddingChangesNothing) /\ [][UndecidedStepKeepsBothSides]_vars

C9_Witness ==
    /\ pc = "done"
    /\ Len(choices) < NumHunks(ops)
    /\ Len(choices) > 0
    /\ merged_left # merged_right
    /\ \E k \in 1..Len(ops) : ops[k].tag = "Replace" /\ k > 1

\* the lines the decision table appends to each buffer for one operation
TableLeft(op, c, ll, rl) ==
    LET l == LineSpan(ll, op.old_index, op.old_len)
        r == LineSpan(rl, op.new_index, op.new_len)
    IN  CASE op.tag = "Equal"   -> l
          [] op.tag = "Delete"  -> IF c \in {"Left", "Skip"} THEN l ELSE <<>>
          [] op.tag = "Insert"  -> IF c = "Right" THEN r ELSE <<>>
          [] op.tag = "Replace" -> IF c \in {"Left", "Skip"} THEN l ELSE r

TableRight(op, c, ll, rl) ==
    LET l == LineSpan(ll, op.old_index, op.old_len)
        r == LineSpan(rl, op.new_index, op.new_len)
    IN  CASE op.tag = "Equal"   -> l
          [] op.tag = "Delete"  -> IF c = "Left" THEN l ELSE <<>>
          [] op.tag = "Insert"  -> IF c \in {"Right", "Skip"} THEN r ELSE <<>>
          [] op.tag = "Replace" -> IF c = "Left" THEN l ELSE r

StepFollowsTable ==
    (pc = "replay" /\ op_pos < Len(ops) /\ pc' = "replay")
        => LET op == ops[op_pos + 1]
               c  == IF hunk_idx < Len(choices) THEN choices[hunk_idx + 1] ELSE "Skip"
               ll == Lines(left_content)
               rl == Lines(right_content)
           IN  /\ op_pos' = op_pos + 1
               /\ hunk_idx' = hunk_idx + (IF op.tag = "Equal" THEN 0 ELSE 1)
               /\ merged_left_lines' = merged_left_lines \o TableLeft(op, c, ll, rl)
               /\ merged_right_lines' = merged_right_lines \o TableRight(op, c, ll, rl)

\* C10: every replay step appends to the two line buffers what the decision
\* table says for the operation and its choice, operations in sequence order.
C10_DecisionTable == [][StepFollowsTable]_vars

C10_Witness ==
    /\ pc = "done"
    /\ NumHunks(ops) = 2
    /\ choices = <<"Skip", "Right">>
    /\ \E k \in 1..Len(ops) : ops[k].tag = "Delete"
    /\ \E k \in 1..Len(ops) : ops[k].tag = "Equal"
    /\ merged_left_lines # merged_right_lines

----------------------------------------------------------------------------
(* Properties of the Modified branch of main (specification SpecSession) *)

\* C4: every state on disk between two prompts is a complete snapshot. Once
\* a decision is taken, the two files on disk equal the two outputs of
\* apply_hunk_choices on the original texts and the decisions taken so far.
C4_DiskIsSnapshot ==
    (~dry_run /\ hunk_choices # <<>> /\ pc \in {"prompt", "next_entry", "summary"})
        => <<disk_left, disk_right>> =
               ApplyHunkChoices(left_content, right_content, ops, hunk_choices)

----------------------------------------------------------------------------
(* Properties of extract_hunks (specification SpecExtract) *)

\* every line of a text as extract_hunks renders it
RenderedLines(lines, ends) ==
    [k \in 1..Len(lines) |-> format_line_with_newline(lines[k], k - 1, Len(lines), ends)]

\* C8: round trip. The lines of a text, each rendered with its newline
\* except the final line of a text without trailing newline, concatenate to
\* the text itself.
C8_RoundTrip ==
    pc # "split" =>
        /\ Concat(RenderedLines(left_lines_vec, EndsWithNewline(left_content)))
               = left_content
        /\ Concat(RenderedLines(right_lines_vec, EndsWithNewline(right_content)))
               = right_content

----------------------------------------------------------------------------
(* Properties of compare_directories (specification SpecCompare) *)

IsOneSidedDir(e) ==
    /\ e.diff_type \in {"LeftOnly", "RightOnly"}
    /\ (e.left_is_dir = Some(TRUE) \/ e.right_is_dir = Some(TRUE))

StrictlyUnder(p, dir) == Len(p) > Len(dir) /\ SubSeq(p, 1, Len(dir)) = dir

NothingUnderOneSidedDir ==
    \A i, j \in 1..Len(diffs) :
        IsOneSidedDir(diffs[i]) => ~StrictlyUnder(diffs[j].path, diffs[i].path)

\* the directories of tree t that the other tree lacks while it has their parent
TopMostOneSided(t, other) ==
    {p \in DOMAIN t :
        /\ t[p].is_dir
        /\ p \notin DOMAIN other
        /\ (Len(p) = 1 \/ Parent(p) \in DOMAIN other)}

EntriesAtOrUnder(p) ==
    SelectSeq(diffs, LAMBDA e : e.path = p \/ StrictlyUnder(e.path, p))

OneEntryPerOneSidedTree ==
    /\ \A p \in TopMostOneSided(left_tree, right_tree) :
           EntriesAtOrUnder(p) = <<[path |-> p, diff_type |-> "LeftOnly",
                                    left_is_dir |-> {TRUE}, right_is_dir |-> {}]>>
    /\ \A p \in TopMostOneSided(right_tree, left_tree) :
           EntriesAtOrUnder(p) = <<[path |-> p, diff_type |-> "RightOnly",
                                    left_is_dir |-> {}, right_is_dir |-> {TRUE}]>>

\* C5: nested suppression. No entry lies strictly under a LeftOnly or
\* RightOnly directory entry, at any depth, and a tree that only one side has
\* is reported as the single entry of its top-most directory.
C5_NestedSuppression ==
    pc = "compared" => (NothingUnderOneSidedDir /\ OneEntryPerOneSidedTree)

C5_Witness ==
    /\ pc = "compared"
    /\ \E k \in 1..Len(diffs) :
          /\ diffs[k].diff_type = "LeftOnly"
          /\ diffs[k].left_is_dir = {TRUE}
          /\ \E p \in DOMAIN left_tree :
                /\ StrictlyUnder(p, diffs[k].path)
                /\ Len(p) = Len(diffs[k].path) + 2
                /\ ~left_tree[p].is_dir

\* the entry with LeftOnly and RightOnly swapped, anything else as it is
SwapKind(e) ==
    CASE e.diff_type = "LeftOnly" ->
            [path |-> e.path, diff_type |-> "RightOnly",
             left_is_dir |-> {}, right_is_dir |-> e.left_is_dir]
      [] e.diff_type = "RightOnly" ->
            [path |-> e.path, diff_type |-> "LeftOnly",
             left_is_dir |-> e.right_is_dir, right_is_dir |-> {}]
      [] OTHER -> e

\* the entry seen from the other side: kinds swapped as above, and the two
\* is-directory flags exchanged for every kind
Mirror(e) ==
    [path |-> e.path,
     diff_type |-> CASE e.diff_type = "LeftOnly" -> "RightOnly"
                     [] e.diff_type = "RightOnly" -> "LeftOnly"
                     [] OTHER -> e.diff_type,
     left_is_dir |-> e.right_is_dir,
     right_is_dir |-> e.left_is_dir]

\* C6 as stated: compare(B, A) is compare(A, B) with LeftOnly and RightOnly
\* swapped and the Modified and TypeMismatch entries unchanged.
C6_SideSymmetryUnchanged ==
    pc = "compared" =>
        \A left_walk \in WalkDir(right_tree), right_walk \in WalkDir(left_tree) :
            compare_directories(right_tree, left_tree, left_walk, right_walk)
                = [k \in 1..Len(diffs) |-> SwapKind(diffs[k])]

\* C6: side symmetry. compare(B, A) has the paths of compare(A, B) in the
\* same order, with LeftOnly and RightOnly swapped, Modified entries
\* unchanged, and TypeMismatch entries with their two is-directory flags
\* exchanged.
C6_SideSymmetry ==
    pc = "compared" =>
        \A left_walk \in WalkDir(right_tree), right_walk \in WalkDir(left_tree) :
            compare_directories(right_tree, left_tree, left_walk, right_walk)
                = [k \in 1..Len(diffs) |-> Mirror(diffs[k])]

C6_Witness ==
    /\ pc = "compared"
    /\ \E k \in 1..Len(diffs) : diffs[k].diff_type = "TypeMismatch"
    /\ \E k \in 1..Len(diffs) : diffs[k].diff_type = "LeftOnly"
    /\ \E k \in 1..Len(diffs) : diffs[k].diff_type = "RightOnly"

----------------------------------------------------------------------------
(* Hunks of extract_hunks against the replay of apply_hunk_choices         *)
(* (specification Spec)                                                    *)

\* hunk h carries the position and the line counts of operation op
HunkDescribes(h, op) ==
    /\ op.tag # "Equal"
    /\ h.left_start = op.old_index
    /\ h.left_count = op.old_len
    /\ h.right_start = op.new_index
    /\ h.right_count = op.new_len
    /\ Len(h.left_lines) <= op.old_len
    /\ Len(h.right_lines) <= op.new_len

\* the hunks pushed so far are those of the non-Equal operations walked so
\* far, one each, in the order of the operations
OneHunkPerOperation ==
    pc \in {"extract", "extracted"} =>
        /\ Len(hunks) = NumHunks(SubSeq(ops, 1, op_pos))
        /\ \A k \in 1..op_pos :
              ops[k].tag # "Equal" =>
                  HunkDescribes(hunks[NumHunks(SubSeq(ops, 1, k))], ops[k])

\* the choice index of the replay points at the hunk of the operation the
\* replay stands before, and has passed every hunk at the end
ChoiceIndexFollowsHunks ==
    /\ (pc = "replay" /\ op_pos < Len(ops) /\ ops[op_pos + 1].tag # "Equal")
          => (hunk_idx < Len(hunks) /\ HunkDescribes(hunks[hunk_idx + 1], ops[op_pos + 1]))
    /\ pc = "done" => hunk_idx = Len(hunks)

\* the second call of extract_hunks has returned what the first returned
SecondCallSameHunks ==
    (pc = "extracted" /\ first_hunks # None) => first_hunks = Some(hunks)

----------------------------------------------------------------------------
(* Classification by compare_directories (specification SpecCompare) *)

\* path p lies strictly under a directory that only tree t has
UnderOneSidedDir(p, t, other) ==
    \E k \in 1..(Len(p) - 1) :
        /\ IsDir(t, SubSeq(p, 1, k))
        /\ ~Exists(other, SubSeq(p, 1, k))

\* the entries the classification rules give for path p: none or one
ExpectedEntries(p, lt, rt) ==
    CASE p \in DOMAIN lt /\ p \notin DOMAIN rt ->
            IF UnderOneSidedDir(p, lt, rt) THEN {}
            ELSE {[path |-> p, diff_type |-> "LeftOnly",
                   left_is_dir |-> {lt[p].is_dir}, right_is_dir |-> {}]}
      [] p \notin DOMAIN lt /\ p \in DOMAIN rt ->
            IF UnderOneSidedDir(p, rt, lt) THEN {}
            ELSE {[path |-> p, diff_type |-> "RightOnly",
                   left_is_dir |-> {}, right_is_dir |-> {rt[p].is_dir}]}
      [] p \in DOMAIN lt /\ p \in DOMAIN rt ->
            IF lt[p].is_dir # rt[p].is_dir
            THEN {[path |-> p, diff_type |-> "TypeMismatch",
                   left_is_dir |-> {lt[p].is_dir}, right_is_dir |-> {rt[p].is_dir}]}
            ELSE IF ~lt[p].is_dir /\ lt[p].content # rt[p].content
            THEN {[path |-> p, diff_type |-> "Modified",
                   left_is_dir |-> {FALSE}, right_is_dir |-> {FALSE}]}
            ELSE {}

\* C12: classification. The result holds, for every relative path of the
\* union of both trees, exactly the entry of its case and no other entry:
\* LeftOnly or RightOnly with the is-directory flag of the side that has the
\* path unless the path lies under a directory only that side has,
\* TypeMismatch for a directory against a file, Modified for two files of
\* different content, and nothing for two equal files or two directories;
\* two identical trees give the empty result.
C12_Classification ==
    pc = "compared" =>
        /\ EntrySet(diffs) =
              UNION {ExpectedEntries(p, left_tree, right_tree) :
                        p \in DOMAIN left_tree \cup DOMAIN right_tree}
        /\ Cardinality(EntrySet(diffs)) = Len(diffs)
        /\ left_tree = right_tree => diffs = <<>>

C12_Witness ==
    /\ pc = "compared"
    /\ \E k \in 1..Len(diffs) :
          /\ diffs[k].diff_type = "TypeMismatch"
          /\ diffs[k].left_is_dir = {TRUE}
          /\ \E j \in 1..Len(diffs) :
                /\ diffs[j].diff_type = "LeftOnly"
                /\ Parent(diffs[j].path) = diffs[k].path
    /\ \E k \in 1..Len(diffs) : diffs[k].diff_type = "Modified"

----------------------------------------------------------------------------
(* Order of the entries of compare_directories (specification SpecCompare) *)

\* C13: the entry list is deterministic. Its paths are pairwise different
\* and ascend in the order of paths (component by component, a component by
\* its bytes), it lists the paths in the order the sorted union of both
\* trees has them, and every order in which the two walks can yield the
\* paths of the same two trees gives this same list.
C13_DeterministicOrder ==
    pc = "compared" =>
        /\ \A i, j \in 1..Len(diffs) : i < j => PathLess(diffs[i].path, diffs[j].path)
        /\ \A i, j \in 1..Len(diffs) : i # j => diffs[i].path # diffs[j].path
        /\ LET all == SortedPaths(DOMAIN left_tree \cup DOMAIN right_tree)
           IN  SelectSeq(all, LAMBDA p : \E k \in 1..Len(diffs) : diffs[k].path = p)
                   = [k \in 1..Len(diffs) |-> diffs[k].path]
        /\ \A left_walk \in WalkDir(left_tree), right_walk \in WalkDir(right_tree) :
              compare_directories(left_tree, right_tree, left_walk, right_walk) = diffs

C13_Witness ==
    /\ pc = "compared"
    /\ Cardinality(WalkDir(left_tree)) > 1
    /\ Cardinality(WalkDir(right_tree)) > 1
    /\ Len(diffs) >= 3
    /\ \E k \in 1..(Len(diffs) - 1) :
          /\ diffs[k].path = <<"a", "a">>
          /\ diffs[k + 1].path = <<"a.b">>

----------------------------------------------------------------------------
(* Properties of apply_file_action (specification SpecAction) *)

\* the step applies action a to an entry of one of the kinds
ActionStep(a, kinds) ==
    /\ pc = "act"
    /\ pc' # "act"
    /\ applied'[2] = a
    /\ applied'[1].diff_type \in kinds

\* tree dst holds at p and below exactly what tree src holds there
SubtreeCopied(src, dst, p) ==
    /\ \A q \in DOMAIN src : StartsWith(q, p) => (q \in DOMAIN dst /\ dst[q] = src[q])
    /\ \A q \in DOMAIN dst : StartsWith(q, p) => q \in DOMAIN src

\* the step copied the entry at p from the tree src to the other tree
CopyMade(src, src_after, dst, dst_after, p) ==
    /\ pc' = "acted"
    /\ src_after = src
    /\ Exists(src, p)
    /\ SubtreeCopied(src, dst_after, p)
    /\ \A k \in 1..(Len(p) - 1) : IsDir(dst_after, SubSeq(p, 1, k))

CopyStepCopies ==
    ActionStep("Copy", {"LeftOnly", "RightOnly"}) =>
        IF applied'[1].diff_type = "LeftOnly"
        THEN CopyMade(left_tree, left_tree', right_tree, right_tree', applied'[1].path)
        ELSE CopyMade(right_tree, right_tree', left_tree, left_tree', applied'[1].path)

\* C19: Copy on a LeftOnly (RightOnly) entry leaves on the other
\* side, at the same relative path, an identical copy of the entry with all
\* files and sub-directories below it, under parent directories created where
\* they were missing, and leaves the source side as it was.
C19_CopyCreatesCopy == [][CopyStepCopies]_vars

\* the step removed p and everything below it from tree own, nothing else
DeleteMade(own, own_after, other, other_after, p) ==
    /\ pc' = "acted"
    /\ other_after = other
    /\ Exists(own, p)
    /\ DOMAIN own_after = {q \in DOMAIN own : ~StartsWith(q, p)}
    /\ \A q \in DOMAIN own_after : own_after[q] = own[q]

DeleteStepDeletes ==
    ActionStep("Delete", {"LeftOnly", "RightOnly"}) =>
        IF applied'[1].diff_type = "LeftOnly"
        THEN DeleteMade(left_tree, left_tree', right_tree, right_tree', applied'[1].path)
        ELSE DeleteMade(right_tree, right_tree', left_tree, left_tree', applied'[1].path)

NoOpStepChangesNothing ==
    (\/ ActionStep("Skip", {"LeftOnly", "RightOnly", "Modified", "TypeMismatch"})
     \/ ActionStep("Copy", {"Modified"})
     \/ ActionStep("Delete", {"Modified"}))
        => (pc' = "acted" /\ left_tree' = left_tree /\ right_tree' = right_tree)

\* C20: Delete on a LeftOnly (RightOnly) entry removes the path and all that
\* lies below it from its only side and changes nothing else on that side
\* and nothing on the other side; Skip on an entry of any kind and every
\* action on a Modified entry leave both trees as they were.
C20_DeleteAndNoOps == [][DeleteStepDeletes /\ NoOpStepChangesNothing]_vars

C20_Witness ==
    /\ pc = "acted"
    /\ applied[2] = "Delete"
    /\ applied[1].diff_type = "RightOnly"
    /\ applied[1].right_is_dir = {TRUE}
    /\ Len(applied[1].path) = 2
    /\ ~Exists(right_tree, applied[1].path)
    /\ Cardinality(DOMAIN right_tree) = 2
    /\ left_tree # <<>>

----------------------------------------------------------------------------
(* Properties of the session of main (specification SpecMain) *)

QuitStopsSession ==
    /\ quit => quit'
    /\ quit' =>
          /\ left_tree' = left_tree
          /\ right_tree' = right_tree
          /\ hunk_choices' = hunk_choices
          /\ pc' \notin {"entry_prompt", "hunk_prompt"}
    /\ quit => pc' \in {"summary", "exit"}

\* C14: quit. The step that takes the quit answer, at an entry prompt or at
\* a hunk prompt, and every step after it leave both trees as they are, take
\* no further decision and reach no further prompt: nothing more is
\* written, and what earlier decisions wrote stays on disk.
C14_QuitStopsSession == [][QuitStopsSession]_vars

C14_Witness ==
    /\ pc = "exit"
    /\ quit
    /\ ~dry_run
    /\ Len(diffs) = 2
    /\ entry_pos = 0
    /\ Len(hunks) = 2
    /\ hunk_choices = <<"Right">>
    /\ left_tree[diffs[1].path].content # left_content
    /\ right_tree[diffs[1].path].content = right_content

\* C15: dry run. With dry_run set no step of the session changes a tree,
\* whatever is decided for LeftOnly, RightOnly, Modified and TypeMismatch
\* entries, so both trees are at the end what they were at the start.
C15_DryRunWritesNothing ==
    [][dry_run => (dry_run' /\ left_tree' = left_tree /\ right_tree' = right_tree)]_vars

C15_Witness ==
    /\ pc = "exit"
    /\ dry_run
    /\ ~quit
    /\ input = "r"
    /\ Len(diffs) = 2
    /\ entry_pos = 2
    /\ diffs[1].diff_type = "Modified"
    /\ diffs[2].diff_type = "TypeMismatch"
    /\ hunk_choices = <<"Left", "Right">>

----------------------------------------------------------------------------
(* Operations whose indices leave the line ranges (specification Spec).    *)
(* The engine counts a bare CR as a line end and lines() does not, so for  *)
(* a text with a bare CR the operations index lines that do not exist.     *)

NonEqualOps(script) == SelectSeq(script, LAMBDA op : op.tag # "Equal")

\* the lines a hunk shows for the span [start, start + len): the lines of
\* the span that exist, each rendered
RenderedSpan(lines, start, len, ends) ==
    LET span == LineSpan(lines, start, len)
    IN  [k \in 1..Len(span) |->
            format_line_with_newline(span[k], start + k - 1, Len(lines), ends)]

ExtractKeepsInRange ==
    (pc = "replay" /\ op_pos = 0) =>
    LET hs  == ExtractHunks(left_content, right_content, ops, ContextLines)
        nes == NonEqualOps(ops)
    IN  /\ Len(hs) = Len(nes)
        /\ \A j \in 1..Len(hs) :
              /\ hs[j].left_lines =
                    RenderedSpan(Lines(left_content), nes[j].old_index, nes[j].old_len,
                                 EndsWithNewline(left_content))
              /\ hs[j].right_lines =
                    RenderedSpan(Lines(right_content), nes[j].new_index, nes[j].new_len,
                                 EndsWithNewline(right_content))

\* an operation with a line index inside and a line index outside a range
PartlyOutOfRange(op) ==
    \/ (op.old_index < Len(Lines(left_content))
        /\ op.old_index + op.old_len > Len(Lines(left_content)))
    \/ (op.new_index < Len(Lines(right_content))
        /\ op.new_index + op.new_len > Len(Lines(right_content)))

\* an operation with a line index outside a range
OutOfRange(op) ==
    \/ op.old_index + op.old_len > Len(Lines(left_content))
    \/ op.new_index + op.new_len > Len(Lines(right_content))

\* a step over such an operation appends to each buffer the lines that
\* exist of the span the decision table gives that buffer, and no other line
ReplayKeepsInRange ==
    (pc = "replay" /\ op_pos < Len(ops) /\ op_pos' = op_pos + 1
     /\ OutOfRange(ops[op_pos + 1]))
        => LET op == ops[op_pos + 1]
               c  == IF hunk_idx < Len(choices) THEN choices[hunk_idx + 1] ELSE "Skip"
               ll == Lines(left_content)
               rl == Lines(right_content)
           IN  /\ merged_left_lines' = merged_left_lines \o TableLeft(op, c, ll, rl)
               /\ merged_right_lines' = merged_right_lines \o TableRight(op, c, ll, rl)

ReplayGivesTexts ==
    pc = "done" => (merged_left \in Seq(Chars) /\ merged_right \in Seq(Chars))

\* C16: out-of-range indices are tolerated. For every operation sequence of
\* the engine, also where its indices leave the line ranges of lines(),
\* extract_hunks returns one hunk per non-Equal operation whose lines are
\* the lines of the span that exist, apply_hunk_choices appends at every
\* operation nothing or the existing lines of one of its two spans, and the
\* replay ends with two texts.
C16_OutOfRangeTolerated ==
    /\ [](ExtractKeepsInRange /\ ReplayGivesTexts)
    /\ [][ReplayKeepsInRange]_vars

C16_Witness ==
    /\ pc = "done"
    /\ \E k \in 1..Len(ops) : ops[k].tag # "Equal" /\ PartlyOutOfRange(ops[k])
    /\ \E k \in 1..Len(ops) :
          /\ ops[k].tag = "Equal"
          /\ ops[k].old_index >= Len(Lines(left_content))
    /\ merged_left_lines # <<>>
    /\ merged_left_lines # merged_right_lines

----------------------------------------------------------------------------
(* Properties of compare_directories under failures (specification SpecScan) *)

\* a path was removed from a side after the walk of that side had collected
\* it and before the loop evaluated its exists() on that side
VanishedBeforeClassified == vanished # <<>> /\ vanished[3]

\* C17: a path that was collected by a walk and no longer exists on that
\* side when the loop classifies it makes compare_directories report an I/O
\* error; the comparison does not return a list as if nothing had happened.
C17_VanishedPathIsError ==
    (VanishedBeforeClassified /\ pc \in {"compared", "compare_failed"})
        => pc = "compare_failed"

\* the common file pair one of whose two reads fails
UnreadablePairs ==
    {p \in DOMAIN left_tree \cap DOMAIN right_tree :
        /\ ~left_tree[p].is_dir /\ ~right_tree[p].is_dir
        /\ (<<"left", p>> \in unreadable \/ <<"right", p>> \in unreadable)}

\* C18: when the read of one common file pair fails, the failure stays with
\* that entry: the classification of every other path of the two trees is
\* delivered to the caller.
C18_FailureConfinedToEntry ==
    (pc \in {"compared", "compare_failed"} /\ vanished = <<>> /\ UnreadablePairs # {})
        => \A q \in (DOMAIN left_tree \cup DOMAIN right_tree) \ UnreadablePairs :
              ExpectedEntries(q, left_tree, right_tree) \subseteq EntrySet(diffs)

----------------------------------------------------------------------------
(* Binary files in the session of main (specification SpecBinary) *)

\* the bytes of a content, one element per byte
RECURSIVE Bytes(_)
Bytes(content) ==
    IF content = <<>> THEN <<>>
    ELSE (IF Head(content) = Filler THEN [i \in 1..ByteLen(Filler) |-> "a"]
          ELSE <<Head(content)>>)
         \o Bytes(Tail(content))

\* a zero byte at an offset below 8192
ZeroInFirst8192(content) ==
    LET bytes == Bytes(content)
    IN  \E k \in 1..Len(bytes) : bytes[k] = NUL /\ k - 1 < 8192

\* the step of the loop that reaches a Modified entry
AtModifiedEntry ==
    /\ pc = "loop"
    /\ ~quit
    /\ entry_pos < Len(diffs)
    /\ diffs[entry_pos + 1].diff_type = "Modified"

BinaryGating ==
    AtModifiedEntry =>
        LET p == diffs[entry_pos + 1].path
        IN  IF ZeroInFirst8192(left_tree[p].content)
               \/ ZeroInFirst8192(right_tree[p].content)
            THEN /\ pc' = "loop"
                 /\ entry_pos' = entry_pos + 1
                 /\ hunks' = hunks
                 /\ hunk_choices' = hunk_choices
                 /\ left_tree' = left_tree
                 /\ right_tree' = right_tree
            ELSE /\ pc' = "hunk_prompt"
                 /\ hunks' # <<>>
                 /\ left_content' = left_tree[p].content
                 /\ right_content' = right_tree[p].content

\* C21: in a session a Modified pair of which either side has a zero byte
\* within its first 8192 bytes gives no hunks, no prompt and no write, and
\* the session goes on with the next entry; a pair whose zero bytes all lie
\* at offset 8192 or later is read as text and its hunks are prompted.
C21_BinaryGating == [][BinaryGating]_vars

C21_Witness ==
    /\ pc = "hunk_prompt"
    /\ entry_pos = 1
    /\ diffs[1].diff_type = "Modified"
    /\ diffs[2].diff_type = "Modified"
    /\ \E k \in 1..Len(left_content) : left_content[k] = NUL
    /\ ZeroInFirst8192(left_tree[diffs[1].path].content)
    /\ ~ZeroInFirst8192(right_tree[diffs[1].path].content)
    /\ left_tree[diffs[1].path].content # <<NUL, LF>>

----------------------------------------------------------------------------
(* Skip-file at a hunk prompt (specification SpecMain) *)

\* the step that takes the answer "f" at the prompt of hunk k
SkipFileStep == pc = "hunk_prompt" /\ input' = "f"

\* the two files of the entry are what the decisions taken so far wrote
WrittenByDecisions(lt, rt) ==
    LET p == diffs[entry_pos + 1].path
    IN  IF dry_run \/ LastNonSkip(hunk_choices) = "None"
        THEN /\ lt[p].content = left_content
             /\ rt[p].content = right_content
        ELSE LET k == CHOOSE k \in 1..Len(hunk_choices) :
                          /\ hunk_choices[k] # "Skip"
                          /\ \A j \in (k + 1)..Len(hunk_choices) : hunk_choices[j] = "Skip"
                 merged == ApplyHunkChoices(left_content, right_content, ops,
                                            SubSeq(hunk_choices, 1, k))
             IN  /\ lt[p].content = merged[1]
                 /\ rt[p].content = merged[2]

SkipFileLeavesRest ==
    SkipFileStep =>
        /\ hunk_choices' = hunk_choices
        /\ Len(hunk_choices) < Len(hunks)
        /\ left_tree' = left_tree
        /\ right_tree' = right_tree
        /\ WrittenByDecisions(left_tree', right_tree')
        /\ ~quit'
        /\ entry_pos' = entry_pos + 1
        /\ pc' = "loop"

\* after skip-file the loop goes on: to the next entry if there is one
ContinuesAfterSkipFile ==
    (pc = "loop" /\ input = "f" /\ entry_pos < Len(diffs))
        => pc' \in {"entry_prompt", "hunk_prompt", "loop"}

\* C22: skip-file at hunk k of a Modified pair. Hunk k and the hunks after it
\* get no decision and cause no write: both files stay as the last Left or
\* Right decision wrote them, or untouched if there was none; the session is
\* not ended and goes on with the next entry.
C22_SkipFile == [][SkipFileLeavesRest /\ ContinuesAfterSkipFile]_vars

C22_Witness ==
    /\ input = "f"
    /\ pc = "entry_prompt"
    /\ entry_pos = 1
    /\ ~dry_run
    /\ Len(hunks) = 2
    /\ hunk_choices = <<"Left">>
    /\ diffs[1].diff_type = "Modified"
    /\ left_tree[diffs[1].path].content # right_tree[diffs[1].path].content
    /\ right_tree[diffs[1].path].content # right_content

----------------------------------------------------------------------------
(* The bytes of a skipped hunk in the outputs (specification Spec) *)

\* the bytes of the lines [start, start + len) of a text, line ends included
OpBytes(text, start, len) ==
    LET toks == TokenizeLines(text)
    IN  Concat(SubSeq(toks, Min(start, Len(toks)) + 1, Min(start + len, Len(toks))))

\* the number of bytes the joined output holds before the line that follows
\* the buffered lines
RECURSIVE BufferOffset(_)
BufferOffset(lines) ==
    IF lines = <<>> THEN 0 ELSE Len(Head(lines)) + 1 + BufferOffset(Tail(lines))

\* the output holds the bytes of part, if any, at offset, and ends with them
\* if part ends the file
HoldsAt(out, offset, part, covers_final_line) ==
    part # <<>> =>
        /\ Len(out) >= offset + Len(part)
        /\ SubSeq(out, offset + 1, offset + Len(part)) = part
        /\ covers_final_line => Len(out) = offset + Len(part)

\* hunk index of operation k: the non-Equal operations before it
HunkIndexOf(script, k) == NumHunks(SubSeq(script, 1, k - 1))

\* C23: a hunk decided Skip leaves both files unchanged for that hunk. When
\* the replay has ended, for every non-Equal operation whose decision is
\* Skip, the left output holds at the place of that operation the bytes of
\* the operation's original left lines and the right output those of its
\* original right lines; when the operation covers the final line of a text,
\* the output ends as that line ends, with or without a trailing newline.
C23_SkipKeepsBytes ==
    pc = "done" =>
        \A k \in 1..Len(ops) :
            (ops[k].tag # "Equal" /\ ChoiceAt(choices, HunkIndexOf(ops, k)) = "Skip") =>
                LET op == ops[k]
                    before == ReplayAll(SubSeq(ops, 1, k - 1), choices, 0,
                                        Lines(left_content), Lines(right_content),
                                        Buffers(<<>>, <<>>))
                IN  /\ HoldsAt(merged_left, BufferOffset(before.left),
                               OpBytes(left_content, op.old_index, op.old_len),
                               op.old_len > 0 /\ op.old_index + op.old_len
                                   = Len(TokenizeLines(left_content)))
                    /\ HoldsAt(merged_right, BufferOffset(before.right),
                               OpBytes(right_content, op.new_index, op.new_len),
                               op.new_len > 0 /\ op.new_index + op.new_len
                                   = Len(TokenizeLines(right_content)))

----------------------------------------------------------------------------
(* Output construction of apply_hunk_choices (specification Spec) *)

\* the lines of a buffer joined by single newlines, and one trailing newline
\* if and only if the flag is set and the buffer holds at least one line
JoinedWithFlag(lines, flag) ==
    Join(lines) \o (IF flag /\ Len(lines) > 0 THEN <<LF>> ELSE <<>>)

\* C24: output construction. Each output is its buffered lines joined by a
\* single newline, with exactly one trailing newline appended if and only if
\* the resolved trailing-newline flag is true and the line buffer is
\* non-empty, a buffer of empty lines counting as non-empty; an empty buffer
\* gives the empty text.
C24_OutputConstruction ==
    pc = "done" =>
        LET tr == ResolveTrailing(choices, EndsWithNewline(left_content),
                                  EndsWithNewline(right_content))
        IN  /\ merged_left = JoinedWithFlag(merged_left_lines, tr[1])
            /\ merged_right = JoinedWithFlag(merged_right_lines, tr[2])

----------------------------------------------------------------------------
(* Context of the hunks of extract_hunks (specification SpecExtract) *)

\* the rendered left lines with index in [from, to) that exist
LeftLinesIn(from, to) ==
    LET rendered == RenderedLines(left_lines_vec, EndsWithNewline(left_content))
    IN  SubSeq(rendered, from + 1, Min(to, Len(rendered)))

HunkContextIsLeftRange(h) ==
    LET s == h.left_start
        c == h.left_count
        r == ContextLines
        n == Len(left_lines_vec)
    IN  /\ h.context_before = LeftLinesIn(Max(0, s - r), s)
        /\ h.context_after = LeftLinesIn(s + c, Min(s + c + r, n))
        /\ Len(h.context_before) <= r
        /\ Len(h.context_after) <= r

\* C25: hunk context. For every hunk with left start s and left count c,
\* over a left text of n lines and with radius r, context_before is the left
\* lines [max(0, s - r), s) and context_after the left lines
\* [s + c, min(s + c + r, n)), in order and at most r each; this holds for a
\* pure insertion too, whose context is taken from the left text at s.
C25_HunkContext ==
    pc = "extracted" => \A k \in 1..Len(hunks) : HunkContextIsLeftRange(hunks[k])

C25_Witness ==
    /\ pc = "extracted"
    /\ \E k \in 1..Len(hunks) :
          /\ hunks[k].left_count = 0
          /\ hunks[k].right_count > 0
          /\ hunks[k].context_before # <<>>
          /\ hunks[k].context_after # <<>>
          /\ hunks[k].context_after # hunks[k].context_before
    /\ left_lines_vec # right_lines_vec

\* the left line indices a hunk's context is taken from
ContextIndices(h) ==
    LET s == h.left_start
        c == h.left_count
        n == Len(left_lines_vec)
    IN  {i \in 0..(n - 1) : \/ (Max(0, s - ContextLines) <= i /\ i < s)
                            \/ (s + c <= i /\ i < Min(s + c + ContextLines, n))}

\* left line i lies in the range of an Equal operation
CoveredByEqual(i) ==
    \E j \in 1..Len(ops) :
        /\ ops[j].tag = "Equal"
        /\ ops[j].old_index <= i
        /\ i < ops[j].old_index + ops[j].old_len

\* C26: context lines are unchanged lines. Every line in the context_before
\* or context_after of a hunk is a left line covered by an Equal operation,
\* never a line of the changed span of another hunk.
C26_ContextIsUnchanged ==
    pc = "extracted" =>
        \A k \in 1..Len(hunks) : \A i \in ContextIndices(hunks[k]) : CoveredByEqual(i)

----------------------------------------------------------------------------
(* Convergence of the two files (specification SpecSession) *)

\* every hunk of the pair has been decided, none of them Skip
AllDecidedLeftOrRight ==
    /\ hunks # <<>>
    /\ Len(hunk_choices) = Len(hunks)
    /\ \A k \in 1..Len(hunk_choices) : hunk_choices[k] \in {"Left", "Right"}

\* C27: convergence. When every non-Equal operation has a decision Left or
\* Right, in any mix, the two outputs of apply_hunk_choices are equal byte
\* for byte, and in a session that is no dry run the two files on disk are
\* then identical.
C27_Convergence ==
    AllDecidedLeftOrRight =>
        LET merged == ApplyHunkChoices(left_content, right_content, ops, hunk_choices)
        IN  /\ merged[1] = merged[2]
            /\ ~dry_run => disk_left = disk_right

C27_Witness ==
    /\ pc = "next_entry"
    /\ ~dry_run
    /\ hunk_choices = <<"Left", "Right">>
    /\ Len(hunks) = 2
    /\ disk_left = disk_right
    /\ disk_left # left_content
    /\ disk_left # right_content

----------------------------------------------------------------------------
(* Non-redundancy of compare_directories (specification SpecCompare) *)

\* C28: non-redundancy. No entry of the result has a path strictly below the
\* path of another entry, whether that entry is LeftOnly, RightOnly or
\* TypeMismatch; a path that is a non-empty directory on one side and a file
\* on the other gives a single entry.
C28_NonRedundant ==
    pc = "compared" =>
        \A i, j \in 1..Len(diffs) : ~StrictlyUnder(diffs[i].path, diffs[j].path)

----------------------------------------------------------------------------
(* Validity of the entry list during the session (specification SpecMain) *)

\* the entry the loop is about to ask a decision for
AtFreshEntry ==
    \/ pc = "entry_prompt"
    \/ (pc = "hunk_prompt" /\ hunk_choices = <<>>)

\* C29: the entry list computed at the start stays valid. Whenever the
\* session asks for a decision on an entry, the entry's path still exists on
\* the recorded side or sides with the recorded kind, whatever was decided
\* for the entries before it, so that the entry is what a comparison of the
\* trees as they are now gives for its path.
C29_EntriesStayValid ==
    AtFreshEntry =>
        LET diff == diffs[entry_pos + 1]
        IN  diff \in EntrySet(ClassifyPath(<<>>, diff.path, left_tree, right_tree))

----------------------------------------------------------------------------
(* Termination of the session (specification SpecInput) *)

\* entries and hunks are taken in list order, each at most once
PromptedOnceInOrder ==
    /\ entry_pos' >= entry_pos
    /\ (pc = "entry_prompt" /\ pc' # "entry_prompt") => entry_pos' = entry_pos + 1
    /\ (pc = "hunk_prompt" /\ pc' = "loop") => entry_pos' = entry_pos + 1
    /\ (pc = "hunk_prompt" /\ pc' = "hunk_prompt")
          => Len(hunk_choices') \in {Len(hunk_choices), Len(hunk_choices) + 1}

\* a read that finds the input ended does not leave the session at a prompt
EndOfInputEndsPrompt ==
    (pc \in {"entry_prompt", "hunk_prompt"} /\ eof')
        => pc' \notin {"entry_prompt", "hunk_prompt"}

\* C30: the session terminates. Every entry and every hunk is prompted at
\* most once, in list order, and each prompt returns a decision or ends the
\* session for every input stream: also when the stream ends before a valid
\* answer, the prompt that reads the end of input is left, so that the run
\* reaches its summary or an error exit.
C30_SessionTerminates == [][PromptedOnceInOrder /\ EndOfInputEndsPrompt]_vars

====
